---------------------------- MODULE Spec2Model ----------------------------
(***************************************************************************)
(* A model of the image-filter benchmark: the row partition and the        *)
(* scatter layout of the distributed backend, one distributed pass over    *)
(* an image (broadcast, scatter, halo exchange, local compute, gather),    *)
(* the filter pass of the single-process backends, and the drivers that    *)
(* validate arguments, load the batch and write timings.json.              *)
(*                                                                         *)
(* Arithmetic.  The code computes in 32-bit floats; the model computes the *)
(* same expressions exactly, in integers: luma in thousandths              *)
(* (299 r + 587 g + 114 b), Gaussian weights in hundred-millionths (the 8  *)
(* decimals of the tables), sums split in two limbs to stay within 32      *)
(* bits.  A float-to-integer cast truncates (\div on a non-negative        *)
(* value), the MPI helpers add one half before the cast.  Where the exact  *)
(* value lies within float rounding of an integer, the cast of the float   *)
(* may land on either side; the model takes the side of the exact value.   *)
(***************************************************************************)
EXTENDS Integers, Sequences, FiniteSets, TLC

(***************************************************************************)
(* Bounds of the model.                                                    *)
(***************************************************************************)
MaxRanks == 3
MaxHeight == 5
MaxWidth == 2
MaxHostHeight == 3
MaxHostWidth == 2
MaxFiles == 2
MaxThreads == 2
MaxAccessWidth == 3
MaxAccessHeight == 3
MaxGridBlocks == 2
MaxSaveSide == 2
MaxJobs == 2

(***************************************************************************)
(* Program constants.                                                      *)
(***************************************************************************)
channels == 3
KERNEL_SIZE_SOBEL == 3
R_SOBEL == 1
KERNEL_SIZE_GAUSSIAN == 9
GAUSSIAN_RADIUS == 4
KERNEL_SIZE_GAUSSIAN_ST == 27

Ranks(size) == 0 .. size - 1
Operations == {"grayscale", "gaussian", "sobel"}

(***************************************************************************)
(* Buffers are functions from the 0-based byte index, as the code indexes  *)
(* them.  A std::vector<unsigned char>(n) is value-initialised: n zeros.   *)
(***************************************************************************)
ZeroVector(n) == [i \in 0 .. n - 1 |-> 0]

\* buf[i] when i is inside the buffer; a read outside it is undefined
\* behaviour and yields whatever byte lies there (junk).
ReadAt(buf, i, junk) == IF i \in DOMAIN buf THEN buf[i] ELSE junk

\* The bytes a read outside a buffer may return.
JunkBytes == {0, 255}

RECURSIVE SumRange(_, _, _)
\* f[lo] + ... + f[hi], by halving
SumRange(f, lo, hi) ==
    IF lo > hi THEN 0
    ELSE IF lo = hi THEN f[lo]
    ELSE LET mid == (lo + hi) \div 2
         IN  SumRange(f, lo, mid) + SumRange(f, mid + 1, hi)

\* f[0] + ... + f[n-1]
SumTo(f, n) == SumRange(f, 0, n - 1)

(***************************************************************************)
(* Kernel tables.                                                          *)
(***************************************************************************)
\* const float sobel_x[9], sobel_y[9] (the same in every backend).
sobel_x == [i \in 0 .. 8 |-> << -1, 0, 1, -2, 0, 2, -1, 0, 1 >>[i + 1]]
sobel_y == [i \in 0 .. 8 |-> << -1, -2, -1, 0, 0, 0, 1, 2, 1 >>[i + 1]]

\* Weights are held in hundred-millionths (the 8 decimals of the tables),
\* weighted sums in ten-thousandths.
Limb == 100 * 100

\* const float GAUSSIAN_9x9[81] of the distributed and GPU backends.
GAUSSIAN_9x9 ==
    [i \in 0 .. 80 |->
      <<
         1167886, 1192326, 1210095, 1220883, 1224500, 1220883, 1210095, 1192326, 1167886,
         1192326, 1217276, 1235417, 1246431, 1250124, 1246431, 1235417, 1217276, 1192326,
         1210095, 1235417, 1253828, 1265006, 1268755, 1265006, 1253828, 1235417, 1210095,
         1220883, 1246431, 1265006, 1276284, 1280066, 1276284, 1265006, 1246431, 1220883,
         1224500, 1250124, 1268755, 1280066, 1283859, 1280066, 1268755, 1250124, 1224500,
         1220883, 1246431, 1265006, 1276284, 1280066, 1276284, 1265006, 1246431, 1220883,
         1210095, 1235417, 1253828, 1265006, 1268755, 1265006, 1253828, 1235417, 1210095,
         1192326, 1217276, 1235417, 1246431, 1250124, 1246431, 1235417, 1217276, 1192326,
         1167886, 1192326, 1210095, 1220883, 1224500, 1220883, 1210095, 1192326, 1167886 >>[i + 1]]

\* const float GAUSSIAN_27x27[729] = { 0.00000102f } of the sequential
\* backend: one initialiser, the other 728 entries zero-initialised.
GAUSSIAN_27x27 == [i \in 0 .. 728 |-> IF i = 0 THEN 102 ELSE 0]

\* const float GAUSSIAN_27x27[729] of the OpenMP backend: the full table.
GAUSSIAN_27x27_OMP ==
    [i \in 0 .. 728 |->
      <<
         70489, 75901, 81245, 86453, 91452, 96170, 100534, 104476, 107932, 110844, 113164, 114850, 115874, 116217, 115874, 114850, 113164, 110844, 107932, 104476, 100534, 96170, 91452, 86453, 81245, 75901, 70489,
         75901, 81728, 87482, 93090, 98473, 103552, 108251, 112496, 116217, 119353, 121851, 123667, 124769, 125139, 124769, 123667, 121851, 119353, 116217, 112496, 108251, 103552, 98473, 93090, 87482, 81728, 75901,
         81245, 87482, 93643, 99645, 105407, 110844, 115874, 120418, 124401, 127758, 130431, 132375, 133555, 133951, 133555, 132375, 130431, 127758, 124401, 120418, 115874, 110844, 105407, 99645, 93643, 87482, 81245,
         86453, 93090, 99645, 106033, 112164, 117949, 123302, 128136, 132375, 135947, 138792, 140860, 142116, 142537, 142116, 140860, 138792, 135947, 132375, 128136, 123302, 117949, 112164, 106033, 99645, 93090, 86453,
         91452, 98473, 105407, 112164, 118649, 124769, 130431, 135546, 140029, 143808, 146817, 149005, 150334, 150779, 150334, 149005, 146817, 143808, 140029, 135546, 130431, 124769, 118649, 112164, 105407, 98473, 91452,
         96170, 103552, 110844, 117949, 124769, 131205, 137159, 142537, 147252, 151226, 154391, 156691, 158088, 158557, 158088, 156691, 154391, 151226, 147252, 142537, 137159, 131205, 124769, 117949, 110844, 103552, 96170,
         100534, 108251, 115874, 123302, 130431, 137159, 143383, 149005, 153934, 158088, 161397, 163802, 165262, 165752, 165262, 163802, 161397, 158088, 153934, 149005, 143383, 137159, 130431, 123302, 115874, 108251, 100534,
         104476, 112496, 120418, 128136, 135546, 142537, 149005, 154848, 159970, 164287, 167725, 170225, 171742, 172251, 171742, 170225, 167725, 164287, 159970, 154848, 149005, 142537, 135546, 128136, 120418, 112496, 104476,
         107932, 116217, 124401, 132375, 140029, 147252, 153934, 159970, 165262, 169722, 173273, 175856, 177423, 177949, 177423, 175856, 173273, 169722, 165262, 159970, 153934, 147252, 140029, 132375, 124401, 116217, 107932,
         110844, 119353, 127758, 135947, 143808, 151226, 158088, 164287, 169722, 174302, 177949, 180601, 182211, 182751, 182211, 180601, 177949, 174302, 169722, 164287, 158088, 151226, 143808, 135947, 127758, 119353, 110844,
         113164, 121851, 130431, 138792, 146817, 154391, 161397, 167725, 173273, 177949, 181673, 184380, 186024, 186575, 186024, 184380, 181673, 177949, 173273, 167725, 161397, 154391, 146817, 138792, 130431, 121851, 113164,
         114850, 123667, 132375, 140860, 149005, 156691, 163802, 170225, 175856, 180601, 184380, 187128, 188796, 189356, 188796, 187128, 184380, 180601, 175856, 170225, 163802, 156691, 149005, 140860, 132375, 123667, 114850,
         115874, 124769, 133555, 142116, 150334, 158088, 165262, 171742, 177423, 182211, 186024, 188796, 190480, 191044, 190480, 188796, 186024, 182211, 177423, 171742, 165262, 158088, 150334, 142116, 133555, 124769, 115874,
         116217, 125139, 133951, 142537, 150779, 158557, 165752, 172251, 177949, 182751, 186575, 189356, 191044, 191610, 191044, 189356, 186575, 182751, 177949, 172251, 165752, 158557, 150779, 142537, 133951, 125139, 116217,
         115874, 124769, 133555, 142116, 150334, 158088, 165262, 171742, 177423, 182211, 186024, 188796, 190480, 191044, 190480, 188796, 186024, 182211, 177423, 171742, 165262, 158088, 150334, 142116, 133555, 124769, 115874,
         114850, 123667, 132375, 140860, 149005, 156691, 163802, 170225, 175856, 180601, 184380, 187128, 188796, 189356, 188796, 187128, 184380, 180601, 175856, 170225, 163802, 156691, 149005, 140860, 132375, 123667, 114850,
         113164, 121851, 130431, 138792, 146817, 154391, 161397, 167725, 173273, 177949, 181673, 184380, 186024, 186575, 186024, 184380, 181673, 177949, 173273, 167725, 161397, 154391, 146817, 138792, 130431, 121851, 113164,
         110844, 119353, 127758, 135947, 143808, 151226, 158088, 164287, 169722, 174302, 177949, 180601, 182211, 182751, 182211, 180601, 177949, 174302, 169722, 164287, 158088, 151226, 143808, 135947, 127758, 119353, 110844,
         107932, 116217, 124401, 132375, 140029, 147252, 153934, 159970, 165262, 169722, 173273, 175856, 177423, 177949, 177423, 175856, 173273, 169722, 165262, 159970, 153934, 147252, 140029, 132375, 124401, 116217, 107932,
         104476, 112496, 120418, 128136, 135546, 142537, 149005, 154848, 159970, 164287, 167725, 170225, 171742, 172251, 171742, 170225, 167725, 164287, 159970, 154848, 149005, 142537, 135546, 128136, 120418, 112496, 104476,
         100534, 108251, 115874, 123302, 130431, 137159, 143383, 149005, 153934, 158088, 161397, 163802, 165262, 165752, 165262, 163802, 161397, 158088, 153934, 149005, 143383, 137159, 130431, 123302, 115874, 108251, 100534,
         96170, 103552, 110844, 117949, 124769, 131205, 137159, 142537, 147252, 151226, 154391, 156691, 158088, 158557, 158088, 156691, 154391, 151226, 147252, 142537, 137159, 131205, 124769, 117949, 110844, 103552, 96170,
         91452, 98473, 105407, 112164, 118649, 124769, 130431, 135546, 140029, 143808, 146817, 149005, 150334, 150779, 150334, 149005, 146817, 143808, 140029, 135546, 130431, 124769, 118649, 112164, 105407, 98473, 91452,
         86453, 93090, 99645, 106033, 112164, 117949, 123302, 128136, 132375, 135947, 138792, 140860, 142116, 142537, 142116, 140860, 138792, 135947, 132375, 128136, 123302, 117949, 112164, 106033, 99645, 93090, 86453,
         81245, 87482, 93643, 99645, 105407, 110844, 115874, 120418, 124401, 127758, 130431, 132375, 133555, 133951, 133555, 132375, 130431, 127758, 124401, 120418, 115874, 110844, 105407, 99645, 93643, 87482, 81245,
         75901, 81728, 87482, 93090, 98473, 103552, 108251, 112496, 116217, 119353, 121851, 123667, 124769, 125139, 124769, 123667, 121851, 119353, 116217, 112496, 108251, 103552, 98473, 93090, 87482, 81728, 75901,
         70489, 75901, 81245, 86453, 91452, 96170, 100534, 104476, 107932, 110844, 113164, 114850, 115874, 116217, 115874, 114850, 113164, 110844, 107932, 104476, 100534, 96170, 91452, 86453, 81245, 75901, 70489 >>[i + 1]]

\* floor(10^4 * sum of kernel[i] * sample[i]) for i < n: the products are
\* summed in two limbs, each sum within 32 bits.
WeightedSum(kernel, sample, n) ==
    LET prod == [i \in 0 .. n - 1 |-> kernel[i] * sample[i]]
        hi == SumTo([i \in 0 .. n - 1 |-> prod[i] \div Limb], n)
        lo == SumTo([i \in 0 .. n - 1 |-> prod[i] % Limb], n)
    IN  hi + lo \div Limb

(***************************************************************************)
(* Scalar helpers.                                                         *)
(***************************************************************************)
Min(a, b) == IF a < b THEN a ELSE b
Max(a, b) == IF a > b THEN a ELSE b
Abs(a) == IF a < 0 THEN -a ELSE a

\* inline int clamp(int val, int min_val, int max_val)
clamp(val, min_val, max_val) == Min(Max(val, min_val), max_val)

RECURSIVE ISqrtIn(_, _, _)
\* The largest k in lo..hi with k*k <= n (lo*lo <= n), by bisection.
ISqrtIn(n, lo, hi) ==
    IF lo >= hi THEN lo
    ELSE LET mid == (lo + hi + 1) \div 2
         IN  IF mid * mid <= n THEN ISqrtIn(n, mid, hi) ELSE ISqrtIn(n, lo, mid - 1)

\* floor(sqrt(n)) for 0 <= n < 2^31
ISqrt(n) == ISqrtIn(n, 0, 46340)

\* Luma of a pixel in thousandths: 0.299f*r + 0.587f*g + 0.114f*b
Luma1000(r, g, b) == 299 * r + 587 * g + 114 * b

\* inline unsigned char to_gray_uc(r, g, b): int gi = (int)(gray + 0.5f),
\* clamped to [0, 255].
to_gray_uc(r, g, b) == clamp((Luma1000(r, g, b) + 500) \div 1000, 0, 255)

\* inline unsigned char clamp_uc(float v) for v = num / den (den even):
\* int iv = (int)(v + 0.5f), clamped to [0, 255].
clamp_uc(num, den) ==
    LET shifted == num + den \div 2
        iv == IF shifted >= 0 THEN shifted \div den ELSE -((-shifted) \div den)
    IN  clamp(iv, 0, 255)

\* clamp_uc(std::sqrt(gx*gx+gy*gy)) for integral gx, gy:
\* sqrt(s) = sqrt(4 s) / 2, and floor(x/2 + 1/2) depends on floor(x) only.
clamp_uc_sqrt(gx, gy) == clamp_uc(ISqrt(4 * (gx * gx + gy * gy)), 2)

\* static_cast<unsigned char>(clamp_f(v, 0.0f, 255.0f)) for v = num / den:
\* clamped first, then truncated toward zero.
cast_clamp_f(num, den) ==
    IF num <= 0 THEN 0 ELSE IF num >= 255 * den THEN 255 ELSE num \div den

\* floor(a*a / 10^6) for 0 <= a < 1048000, in 32-bit steps:
\* a = 1000 a1 + a0, a*a = 10^6 a1^2 + (2000 a1 a0 + a0^2).
SquareMillionths(a) ==
    LET a1 == a \div 1000
        a0 == a % 1000
        low == 2000 * a1 * a0 + a0 * a0
    IN  [hi |-> a1 * a1 + low \div 1000000, lo |-> low % 1000000]

\* floor(sqrt(gx*gx + gy*gy) / 1000) for gx, gy in thousandths: the cast of
\* the Sobel magnitude; (1000 n)^2 <= gx^2 + gy^2 iff n^2 <= floor(./10^6).
MagnitudeFloor(gx, gy) ==
    LET a == SquareMillionths(Abs(gx))
        b == SquareMillionths(Abs(gy))
    IN  ISqrt(a.hi + b.hi + (a.lo + b.lo) \div 1000000)


(***************************************************************************)
(* Row partition (distributed backend): every rank computes base, rem and  *)
(* its own row count; rank 0 also lays out the scatter.                    *)
(***************************************************************************)
\* The row count with an off-by-one comparison, and with the remainder rows
\* given to the last ranks instead of the first.
RowsOfRank_le(h, size, r) == (h \div size) + (IF r <= h % size THEN 1 ELSE 0)
RowsOfRank_high(h, size, r) ==
    (h \div size) + (IF r >= size - (h % size) THEN 1 ELSE 0)

\* int base=height/size, rem=height%size; int myrows = base + (rank<rem?1:0);
RowsOfRank(h, size, r) == (h \div size) + (IF r < h % size THEN 1 ELSE 0)


VARIABLES
    layout      \* rank 0's layout loop: height, size, unit (bytes per row),
                \* r, off, sendcounts, displs

\* Bytes per row of the buffers the layouts describe: the RGB input rows of
\* the scatter (and of the Gaussian gather), the one-channel rows of the
\* grayscale and Sobel gather.
RowUnits(width) == {width * channels, width}

\* std::vector<int> sendcounts(size), displs(size); int off=0; r=0
LayoutStart(h, size, unit) ==
    [height |-> h, size |-> size, unit |-> unit, r |-> 0, off |-> 0,
     sendcounts |-> ZeroVector(size), displs |-> ZeroVector(size)]

\* One iteration of for(int r=0;r<size;r++){ rows = base + (r<rem?1:0);
\*   sendcounts[r]=rows*width*channels; displs[r]=off; off+=sendcounts[r]; }
\* (the loop state is bound once, s, and the iteration is computed from it)
LayoutStep(st) ==
    CHOOSE next \in
        {[s EXCEPT !.sendcounts[s.r] = RowsOfRank(s.height, s.size, s.r) * s.unit,
                   !.displs[s.r] = s.off,
                   !.off = s.off + RowsOfRank(s.height, s.size, s.r) * s.unit,
                   !.r = s.r + 1] : s \in {st}} : TRUE

RECURSIVE LayoutRun(_)
\* The whole loop, as rank 0 runs it before a scatter or a gather.
LayoutRun(st) == IF st.r < st.size THEN LayoutRun(LayoutStep(st)) ELSE st

LayoutOf(h, size, unit) == LayoutRun(LayoutStart(h, size, unit))

PartInit ==
    \E h \in 0 .. MaxHeight, s \in 1 .. MaxRanks, w \in 1 .. MaxWidth :
        \E u \in RowUnits(w) : layout = LayoutStart(h, s, u)

LayoutIter ==
    /\ layout.r < layout.size
    /\ layout' = LayoutStep(layout)


LayoutDone == layout.r = layout.size

\* Row range of rank q as the finished layout describes it.
StartRow(q) == layout.displs[q] \div layout.unit
RowCount(q) == layout.sendcounts[q] \div layout.unit
RowRange(q) == StartRow(q) .. StartRow(q) + RowCount(q) - 1

\* C1: for every height >= 0 and worker count >= 1 the row ranges of workers
\* 0..count-1 are contiguous, pairwise disjoint, ordered by worker index from
\* row 0, and their row counts sum to height: their union is [0, height).
C1_PartitionCoverage ==
    LayoutDone =>
        LET size == layout.size
            h == layout.height
        IN  /\ \A q \in Ranks(size) :
                  /\ layout.sendcounts[q] = RowsOfRank(h, size, q) * layout.unit
                  /\ layout.displs[q] % layout.unit = 0
            /\ StartRow(0) = 0
            /\ \A q \in Ranks(size - 1) : StartRow(q + 1) = StartRow(q) + RowCount(q)
            /\ \A q, p \in Ranks(size) : q # p => RowRange(q) \cap RowRange(p) = {}
            /\ UNION {RowRange(q) : q \in Ranks(size)} = 0 .. h - 1
            /\ SumTo([q \in Ranks(size) |-> RowCount(q)], size) = h
            /\ layout.off = h * layout.unit

\* A finished layout with more workers than rows and one with a remainder.
C1_Witness ==
    /\ LayoutDone
    /\ layout.size = 3
    /\ layout.height = 4
    /\ layout.unit = 2 * channels
    /\ layout.displs = (0 :> 0) @@ (1 :> 12) @@ (2 :> 18)

\* C2: the remainder rows go to the lowest-indexed workers, one extra row
\* each: counts are non-increasing in worker index, differ by at most 1, and
\* exactly the workers below height % count hold the larger count; height 5
\* on 3 workers gives sizes [2, 2, 1].
C2_RemainderToLowest ==
    LayoutDone =>
        LET size == layout.size
            h == layout.height
        IN  /\ \A q \in Ranks(size - 1) : RowCount(q) >= RowCount(q + 1)
            /\ \A q, p \in Ranks(size) :
                  /\ RowCount(q) - RowCount(p) <= 1
                  /\ RowCount(q) > RowCount(p) => q < h % size /\ p >= h % size
            /\ \A q \in Ranks(size) :
                  RowCount(q) = (h \div size) + 1 <=> q < h % size
            /\ (h = 5 /\ size = 3) =>
                  [q \in Ranks(size) |-> RowCount(q)] = (0 :> 2) @@ (1 :> 2) @@ (2 :> 1)

C2_Witness ==
    /\ LayoutDone
    /\ layout.height = 5
    /\ layout.size = 3
    /\ [q \in Ranks(3) |-> RowCount(q)] = (0 :> 2) @@ (1 :> 2) @@ (2 :> 1)

(***************************************************************************)
(* Input images.  A decoded image is a row-major buffer of RGB bytes.      *)
(***************************************************************************)
Black == << 0, 0, 0 >>
White == << 255, 255, 255 >>
Red == << 255, 0, 0 >>
Green == << 0, 255, 0 >>
Blue == << 0, 0, 255 >>

\* One colour everywhere; red, green, blue, white by pixel index (on 2 x 2
\* the image of the grayscale scenario); one colour per row.
Patterns ==
    { [kind |-> "uniform", colour |-> Green],
      [kind |-> "cycle", colour |-> Red],
      [kind |-> "rows", colour |-> Black] }

PixelOf(pat, w, y, x) ==
    CASE pat.kind = "uniform" -> pat.colour
      [] pat.kind = "cycle" -> << Red, Green, Blue, White >>[((y * w + x) % 4) + 1]
      [] pat.kind = "rows" -> << Black, White, Green, Red >>[(y % 4) + 1]

\* What stbi_load(path, &w, &h, &c, 3) returns for a file that decodes.
ImageBuffer(pat, w, h) ==
    [i \in 0 .. w * h * channels - 1 |->
        PixelOf(pat, w, (i \div channels) \div w, (i \div channels) % w)[(i % channels) + 1]]

\* count bytes of buf from byte index start on (a pointer and a length).
Slice(buf, start, count, junk) ==
    [i \in 0 .. count - 1 |-> ReadAt(buf, start + i, junk)]

(***************************************************************************)
(* Local computations of the distributed backend on a rank's rows.         *)
(***************************************************************************)
\* for y, x: local_gray[y*width+x] = to_gray_uc(local_rgb[idx], [idx+1], [idx+2])
local_gray_of(local_rgb, myrows, w) ==
    [i \in 0 .. myrows * w - 1 |->
        to_gray_uc(local_rgb[i * channels], local_rgb[i * channels + 1],
                   local_rgb[i * channels + 2])]

\* auto get_gray=[&](int y,int x){ if(y<0) return top[x];
\*   if(y>=myrows) return bottom[x]; if(x<0) x=0; if(x>=width) x=width-1;
\*   return local_gray[y*width+x]; }
get_gray(gray, top, bottom, myrows, w, y, x, junk) ==
    IF y < 0 THEN ReadAt(top, x, junk)
    ELSE IF y >= myrows THEN ReadAt(bottom, x, junk)
    ELSE gray[y * w + clamp(x, 0, w - 1)]

\* The Sobel loop body of mpi_sobel for local pixel (y, x).
mpi_sobel_pixel(gray, top, bottom, myrows, w, y, x, junk) ==
    LET v == [idx \in 0 .. 8 |->
                get_gray(gray, top, bottom, myrows, w,
                         y + (idx \div 3) - R_SOBEL, x + (idx % 3) - R_SOBEL, junk)]
        gx == SumTo([idx \in 0 .. 8 |-> v[idx] * sobel_x[idx]], 9)
        gy == SumTo([idx \in 0 .. 8 |-> v[idx] * sobel_y[idx]], 9)
    IN  clamp_uc_sqrt(gx, gy)

\* local_edge of mpi_sobel
mpi_sobel_rows(local_rgb, top, bottom, myrows, w, junk) ==
    LET gray == local_gray_of(local_rgb, myrows, w)
    IN  [i \in 0 .. myrows * w - 1 |->
            mpi_sobel_pixel(gray, top, bottom, myrows, w, i \div w, i % w, junk)]

\* auto get_rgb=[&](int y,int x,int c){
\*   if(y<0) return top[(R+y)*width*channels + x*channels + c];
\*   if(y>=myrows) return bottom[(y-myrows)*width*channels + x*channels + c];
\*   if(x<0) x=0; if(x>=width) x=width-1;
\*   return local_rgb[y*width*channels + x*channels + c]; }
get_rgb(local_rgb, top, bottom, myrows, w, y, x, c, junk) ==
    IF y < 0
      THEN ReadAt(top, (GAUSSIAN_RADIUS + y) * w * channels + x * channels + c, junk)
    ELSE IF y >= myrows
      THEN ReadAt(bottom, (y - myrows) * w * channels + x * channels + c, junk)
    ELSE local_rgb[y * w * channels + clamp(x, 0, w - 1) * channels + c]

\* acc[c] of mpi_gaussian for local pixel (y, x), then clamp_uc.
mpi_gaussian_pixel(local_rgb, top, bottom, myrows, w, y, x, c, junk) ==
    LET K == KERNEL_SIZE_GAUSSIAN
        R == GAUSSIAN_RADIUS
        acc == WeightedSum(GAUSSIAN_9x9,
                           [i \in 0 .. K * K - 1 |->
                               get_rgb(local_rgb, top, bottom, myrows, w,
                                       y + (i \div K) - R, x + (i % K) - R, c, junk)],
                           K * K)
    IN  clamp_uc(acc, Limb)

\* local_blur of mpi_gaussian
mpi_gaussian_rows(local_rgb, top, bottom, myrows, w, junk) ==
    [i \in 0 .. myrows * w * channels - 1 |->
        mpi_gaussian_pixel(local_rgb, top, bottom, myrows, w,
                           (i \div channels) \div w, (i \div channels) % w,
                           i % channels, junk)]

(***************************************************************************)
(* Filters of the single-process backends (sequential, OpenMP, GPU): the   *)
(* loop body for output pixel (x, y) and the whole pass.                   *)
(***************************************************************************)
\* The neighbour index with the row wrapped to the opposite edge.
SampleIndex_wrap(w, h, c_in, x, y, kx, ky) ==
    (((y + ky + h) % h) * w + clamp(x + kx, 0, w - 1)) * c_in

\* int nx = clamp(x + kx, 0, w - 1); int ny = clamp(y + ky, 0, h - 1);
\* int nIdx = (ny * w + nx) * c_in;
SampleIndex(w, h, c_in, x, y, kx, ky) ==
    (clamp(y + ky, 0, h - 1) * w + clamp(x + kx, 0, w - 1)) * c_in

\* out[idx_out] = static_cast<unsigned char>(0.299f * r + 0.587f * g + 0.114f * b)
apply_grayscale_pixel(in, w, c_in, x, y) ==
    LET idx_in == (y * w + x) * c_in
    IN  Luma1000(in[idx_in], in[idx_in + 1], in[idx_in + 2]) \div 1000

\* r_sum / g_sum / b_sum of apply_gaussian for channel c,
\* then static_cast<unsigned char>(clamp_f(sum, 0.0f, 255.0f)).
apply_gaussian_pixel(in, w, h, c_in, kernel, k_size, x, y, c) ==
    LET half == k_size \div 2
        sum == WeightedSum(kernel,
                           [i \in 0 .. k_size * k_size - 1 |->
                               in[SampleIndex(w, h, c_in, x, y,
                                              (i % k_size) - half,
                                              (i \div k_size) - half) + c]],
                           k_size * k_size)
    IN  cast_clamp_f(sum, Limb)

\* gx, gy and mag of apply_sobel, the luma of each sample in thousandths,
\* then static_cast<unsigned char>(clamp_f(mag, 0.0f, 255.0f)).
apply_sobel_pixel(in, w, h, c_in, kx_kernel, ky_kernel, k_size, x, y) ==
    LET half == k_size \div 2
        gray == [i \in 0 .. k_size * k_size - 1 |->
                    LET idx == SampleIndex(w, h, c_in, x, y,
                                           (i % k_size) - half, (i \div k_size) - half)
                    IN  Luma1000(in[idx], in[idx + 1], in[idx + 2])]
        gx == SumTo([i \in 0 .. k_size * k_size - 1 |-> gray[i] * kx_kernel[i]],
                    k_size * k_size)
        gy == SumTo([i \in 0 .. k_size * k_size - 1 |-> gray[i] * ky_kernel[i]],
                    k_size * k_size)
    IN  Min(MagnitudeFloor(gx, gy), 255)

(***************************************************************************)
(* The CUDA kernels (filters.cuh): the body of the thread of pixel (x, y). *)
(***************************************************************************)
\* cudaMemcpyToSymbol(GAUSSIAN_KERNEL, GAUSSIAN_9x9, sizeof(GAUSSIAN_9x9))
\* into __constant__ float GAUSSIAN_KERNEL[27*27]
GAUSSIAN_KERNEL == [i \in 0 .. 728 |-> IF i < 81 THEN GAUSSIAN_9x9[i] ELSE 0]

\* int nx = min(max(x + kx, 0), width - 1); int ny = min(max(y + ky, 0), height - 1);
\* int nIdx = (ny * width + nx) * channels;
DeviceIndex(width, height, chans, x, y, kx, ky) ==
    (Min(Max(y + ky, 0), height - 1) * width + Min(Max(x + kx, 0), width - 1)) * chans

\* output[y * width + x] = static_cast<unsigned char>(0.299f*r + 0.587f*g + 0.114f*b)
grayscale_kernel(input, width, chans, x, y) ==
    LET idx == (y * width + x) * chans
    IN  Luma1000(input[idx], input[idx + 1], input[idx + 2]) \div 1000

\* r_sum / g_sum / b_sum for channel c, then
\* static_cast<unsigned char>(min(max(sum, 0.0f), 255.0f))
gaussian_blur_kernel_color(input, width, height, chans, kernel_size, x, y, c) ==
    LET half == kernel_size \div 2
        sum == WeightedSum([i \in 0 .. kernel_size * kernel_size - 1 |->
                               GAUSSIAN_KERNEL[i]],
                           [i \in 0 .. kernel_size * kernel_size - 1 |->
                               input[DeviceIndex(width, height, chans, x, y,
                                                 (i % kernel_size) - half,
                                                 (i \div kernel_size) - half) + c]],
                           kernel_size * kernel_size)
    IN  cast_clamp_f(sum, Limb)

\* gx, gy over SOBEL_X, SOBEL_Y (copies of sobel_x, sobel_y), mag = sqrtf(..),
\* then the clamped cast
sobel_filter_kernel(input, width, height, chans, x, y) ==
    LET gray == [i \in 0 .. 8 |->
                    LET idx == DeviceIndex(width, height, chans, x, y,
                                           (i % 3) - 1, (i \div 3) - 1)
                    IN  Luma1000(input[idx], input[idx + 1], input[idx + 2])]
        gx == SumTo([i \in 0 .. 8 |-> gray[i] * sobel_x[i]], 9)
        gy == SumTo([i \in 0 .. 8 |-> gray[i] * sobel_y[i]], 9)
    IN  Min(MagnitudeFloor(gx, gy), 255)

(***************************************************************************)
(* The filter pass of a single-process backend over one image.             *)
(***************************************************************************)
Backends == {"sequential", "omp", "gpu"}

\* const int KERNEL_SIZE_GAUSSIAN of each main.
KernelSize(backend, op) ==
    IF op = "sobel" THEN KERNEL_SIZE_SOBEL
    ELSE IF backend = "gpu" THEN KERNEL_SIZE_GAUSSIAN ELSE KERNEL_SIZE_GAUSSIAN_ST

\* Bytes per output pixel: output_channels of main.
OutputChannels(op) == IF op = "gaussian" THEN channels ELSE 1

\* Byte i of the output the backend computes for the image in.
HostByte(backend, op, in, w, h, i) ==
    LET px == i \div OutputChannels(op)
        x == px % w
        y == px \div w
        c == i % OutputChannels(op)
    IN  CASE op = "grayscale" ->
                IF backend = "gpu"
                  THEN grayscale_kernel(in, w, channels, x, y)
                  ELSE apply_grayscale_pixel(in, w, channels, x, y)
          [] op = "gaussian" ->
                IF backend = "gpu"
                  THEN gaussian_blur_kernel_color(in, w, h, channels,
                                                  KERNEL_SIZE_GAUSSIAN, x, y, c)
                  ELSE apply_gaussian_pixel(in, w, h, channels,
                                            IF backend = "omp" THEN GAUSSIAN_27x27_OMP
                                                               ELSE GAUSSIAN_27x27,
                                            KERNEL_SIZE_GAUSSIAN_ST, x, y, c)
          [] op = "sobel" ->
                IF backend = "gpu"
                  THEN sobel_filter_kernel(in, w, h, channels, x, y)
                  ELSE apply_sobel_pixel(in, w, h, channels, sobel_x, sobel_y,
                                         KERNEL_SIZE_SOBEL, x, y)

\* The whole output buffer.
HostPass(backend, op, in, w, h) ==
    [i \in 0 .. w * h * OutputChannels(op) - 1 |-> HostByte(backend, op, in, w, h, i)]

(***************************************************************************)
(* State of the filter pass of a single-process backend.                   *)
(***************************************************************************)
VARIABLES
    hbackend,   \* sequential, omp or gpu
    hop,        \* the filter
    himg,       \* the input file: width, height, pattern
    hin,        \* the decoded input buffer (img.input_host)
    hrows,      \* the image rows whose loop iteration (or threads) have run
    hout,       \* the bytes of the output buffer written so far
    hsamples    \* the neighbour samples of the latest step

hostVars == << hbackend, hop, himg, hin, hrows, hout, hsamples >>

(***************************************************************************)
(* State of a run of main.                                                 *)
(***************************************************************************)
VARIABLES
    mprogram,   \* which main runs
    margc,      \* argc
    mop,        \* argv[3]
    mfolder,    \* the entries of the input folder, in iteration order
    mdir,       \* whether argv[1] is a directory that exists
    mranks,     \* number of MPI ranks (1 for a single-process program)
    mpc,        \* position in main
    mnext,      \* 1-based index of the loop in progress
    mdone,      \* indices finished by the threads or ranks of a parallel loop
    images,     \* the loaded images (or, in the MPI main, the paths found)
    timings,    \* the MPI main's timings vector
    total,      \* the running totals (per rank in the file-per-rank main)
    mloads,     \* number of stbi_load calls made
    moutputs,   \* the output images written
    mjson,      \* the timing documents written
    mexit       \* the exit status, or Running

mainVars == << mprogram, margc, mop, mfolder, mdir, mranks, mpc, mnext, mdone, images,
               timings, total, mloads, moutputs, mjson, mexit >>

(***************************************************************************)
(* One distributed pass over one image: mpi_grayscale, mpi_sobel or        *)
(* mpi_gaussian run by every rank of the group.                            *)
(***************************************************************************)
VARIABLES
    operation,  \* the filter
    size,       \* number of ranks
    file,       \* the input file: whether it decodes, and to what
    garbage,    \* the byte this run finds when it reads outside a buffer
    pc,         \* each rank's position in the function
    full_img,   \* rank 0's decoded image
    width,      \* each rank's local width
    height,     \* each rank's local height
    bcast,      \* the dimensions rank 0 has broadcast
    scat,       \* the chunks rank 0 has handed to the scatter
    local_rgb,  \* each rank's scattered rows
    top,        \* each rank's halo from the rank above
    bottom,     \* each rank's halo from the rank below
    net,        \* halo messages sent and not yet received
    local_out,  \* each rank's output rows (local_gray, local_edge, local_blur)
    gath,       \* the rows each rank has handed to the gather
    full_out,   \* rank 0's assembled output
    outfile     \* the image rank 0 has encoded

distVars == << operation, size, file, garbage, pc, full_img, width, height, bcast, scat,
               local_rgb, top, bottom, net, local_out, gath, full_out, outfile >>

(***************************************************************************)
(* The image loop of the distributed main: every rank runs the statements  *)
(* of mpi_grayscale, mpi_sobel or mpi_gaussian for one image after the     *)
(* other, with MPI_Barrier between two images.  Pixels are left out.       *)
(***************************************************************************)
VARIABLES
    bvariant,   \* the build: part_008 or cpu_mpi.cpp
    bop,        \* the filter
    bsize,      \* number of ranks
    bfiles,     \* the images of the loop: whether each one decodes
    bimg,       \* each rank's image (index into bfiles)
    bpc,        \* each rank's statement within the image (0: aborted)
    bsent,      \* collective and halo data sent and not yet taken
    barrived,   \* the number of barriers each rank has entered
    brecorded,  \* images whose timing rank 0 has pushed
    bout        \* images rank 0 has encoded

batchVars == << bvariant, bop, bsize, bfiles, bimg, bpc, bsent, barrived, brecorded, bout >>

(***************************************************************************)
(* The accesses of a filter pass to its two buffers: which bytes of the    *)
(* input each loop iteration or GPU thread reads and which bytes of the    *)
(* output it writes.  Pixel values are left out.                           *)
(***************************************************************************)
VARIABLES
    abackend,   \* sequential, omp or gpu
    aop,        \* the filter
    awidth,     \* img.width
    aheight,    \* img.height
    athreads,   \* number of OpenMP threads (1 otherwise)
    adone,      \* the rows (GPU: the thread blocks) that have run
    areads,     \* the reads so far: buffer and index
    awrites     \* the writes so far: buffer, index, pixel, the thread it ran on

accessVars == << abackend, aop, awidth, aheight, athreads, adone, areads, awrites >>

\* The batch programs of cpu_single.cpp (OpenMP) and gpu.cu: the state of
\* main from the load loop to the timings file, and of its export threads.
VARIABLES
    sprog,      \* "omp" or "gpu"
    sop,        \* argv[3]
    sdir,       \* the directory entries: 0 for a file stbi_load refuses,
                \* otherwise the side of a square image
    simages,    \* the vector images: the side of each loaded image
    spc,        \* the statement main is at
    sidx,       \* the index of the loop main is in
    smax,       \* max_input_bytes and max_output_bytes
    sdev,       \* the sizes of d_input and d_output and the number of
                \* cudaMalloc pairs done
    sconst,     \* the number of writes of each constant-memory symbol
    slog,       \* what each pass of the processing loop did
    tpc,        \* the statement each export thread is at
    sbuf,       \* per image: the state of input_host and output_host
    sacc,       \* the accesses the export threads made
    ssnap       \* what main saw when it summed the totals and wrote the file

exportVars == << sprog, sop, sdir, simages, spc, sidx, smax, sdev, sconst,
                 slog, tpc, sbuf, sacc, ssnap >>

\* The orchestrator (index.js): per job, the content of status.json, the
\* position of runFullBenchmarkSequentially and the engine processes.
VARIABLES
    jstatus,    \* status.json of each job, NoStatus before it is written
    jfilter,    \* filter_type of each job
    jpc,        \* where the background task of each job is
    jstep,      \* currentStep of the background task
    jrunning,   \* the engine processes of each job that are running
    jcalls,     \* the execFile calls made for each job, in order
    jexits,     \* the outcomes of the processes of each job that exited
    jreplies    \* the HTTP status the submit request of each job got

jobVars == << jstatus, jfilter, jpc, jstep, jrunning, jcalls, jexits,
              jreplies >>

\* The variables of the other specifications.
outsidePartition == << hostVars, distVars, mainVars, batchVars, accessVars,
                       exportVars, jobVars >>
outsideHost == << layout, distVars, mainVars, batchVars, accessVars,
                  exportVars, jobVars >>
outsideDist == << layout, hostVars, mainVars, batchVars, accessVars,
                  exportVars, jobVars >>
outsideMain == << layout, hostVars, distVars, batchVars, accessVars,
                  exportVars, jobVars >>
outsideBatch == << layout, hostVars, distVars, mainVars, accessVars,
                   exportVars, jobVars >>
outsideAccess == << layout, hostVars, distVars, mainVars, batchVars,
                    exportVars, jobVars >>
outsideExport == << layout, hostVars, distVars, mainVars, batchVars,
                    accessVars, jobVars >>
outsideJob == << layout, hostVars, distVars, mainVars, batchVars, accessVars,
                 exportVars >>

\* The whole state.
vars == << layout, hostVars, distVars, mainVars, batchVars, accessVars,
           exportVars, jobVars >>

MPI_PROC_NULL == -1

\* The rank above with the ranks taken as a ring: no MPI_PROC_NULL at rank 0.
above_ring(rank) == IF rank = 0 THEN size - 1 ELSE rank - 1

\* int above=(rank==0)?MPI_PROC_NULL:rank-1;
above(rank) == IF rank = 0 THEN MPI_PROC_NULL ELSE rank - 1
\* int below=(rank==size-1)?MPI_PROC_NULL:rank+1;
below(rank) == IF rank = size - 1 THEN MPI_PROC_NULL ELSE rank + 1

\* Halo depth in rows: R_SOBEL, GAUSSIAN_RADIUS.
Radius(op) == IF op = "sobel" THEN R_SOBEL ELSE GAUSSIAN_RADIUS

\* Channels of the buffer the halo rows are taken from (local_gray for
\* Sobel, local_rgb for Gaussian) and of the output buffer.
HaloChannels(op) == IF op = "sobel" THEN 1 ELSE channels
OutChannels(op) == IF op = "gaussian" THEN channels ELSE 1

\* The row count without the remainder rows.
myrows_base(rank) == height[rank] \div size

\* int base=height/size, rem=height%size; int myrows = base + (rank<rem?1:0);
myrows(rank) == RowsOfRank(height[rank], size, rank)

\* The buffer a rank's halo rows are sent from.
HaloSource(rank) ==
    IF operation = "sobel"
      THEN local_gray_of(local_rgb[rank], myrows(rank), width[rank])
      ELSE local_rgb[rank]

\* Bytes of one halo: width (Sobel), width*channels*R (Gaussian).
HaloBytes(rank) == width[rank] * HaloChannels(operation) * Radius(operation)

Empty == ZeroVector(0)

\* The files of an input directory: images of every size within the bounds,
\* and a file stbi_load cannot decode.
ImageFiles ==
    {[decodes |-> TRUE, width |-> w, height |-> h, pattern |-> pat] :
        w \in 1 .. MaxWidth, h \in 1 .. MaxHeight, pat \in Patterns}
BadFile == [decodes |-> FALSE, width |-> 0, height |-> 0,
            pattern |-> [kind |-> "uniform", colour |-> Black]]
Files == ImageFiles \cup {BadFile}

DistInit ==
    \E op \in Operations, s \in 1 .. MaxRanks, f \in Files, g \in JunkBytes :
        /\ operation = op
        /\ size = s
        /\ file = f
        /\ garbage = g
        /\ pc = [q \in Ranks(s) |-> IF q = 0 THEN "load" ELSE "bcast"]
        /\ full_img = Empty
        /\ width = [q \in Ranks(s) |-> 0]
        /\ height = [q \in Ranks(s) |-> 0]
        /\ bcast = {}
        /\ scat = {}
        /\ local_rgb = [q \in Ranks(s) |-> Empty]
        /\ top = [q \in Ranks(s) |-> Empty]
        /\ bottom = [q \in Ranks(s) |-> Empty]
        /\ net = {}
        /\ local_out = [q \in Ranks(s) |-> Empty]
        /\ gath = [q \in Ranks(s) |-> [posted |-> FALSE, data |-> Empty]]
        /\ full_out = Empty
        /\ outfile = {}

\* if(rank==0){ full_img = stbi_load(...); if(!full_img){ MPI_Abort } }
Load ==
    /\ pc[0] = "load"
    /\ IF file.decodes
         THEN /\ full_img' = ImageBuffer(file.pattern, file.width, file.height)
              /\ width' = [width EXCEPT ![0] = file.width]
              /\ height' = [height EXCEPT ![0] = file.height]
              /\ pc' = [pc EXCEPT ![0] = "bcast"]
         ELSE /\ pc' = [q \in Ranks(size) |-> "aborted"]
              /\ UNCHANGED << full_img, width, height >>
    /\ UNCHANGED << outsideDist, operation, size, file, garbage, bcast, scat, local_rgb, top, bottom,
                    net, local_out, gath, full_out, outfile >>

\* MPI_Bcast(&width..), MPI_Bcast(&height..), MPI_Bcast(&channels..) at the root
BcastRoot ==
    /\ pc[0] = "bcast"
    /\ bcast' = {[width |-> width[0], height |-> height[0]]}
    /\ pc' = [pc EXCEPT ![0] = "scatter"]
    /\ UNCHANGED << outsideDist, operation, size, file, garbage, full_img, width, height, scat,
                    local_rgb, top, bottom, net, local_out, gath, full_out, outfile >>

\* the same three calls at another rank: blocks until the root's values arrive
BcastRecv(rank) ==
    /\ rank # 0
    /\ pc[rank] = "bcast"
    /\ \E b \in bcast :
          /\ width' = [width EXCEPT ![rank] = b.width]
          /\ height' = [height EXCEPT ![rank] = b.height]
    /\ pc' = [pc EXCEPT ![rank] = "scatter"]
    /\ UNCHANGED << outsideDist, operation, size, file, garbage, full_img, bcast, scat, local_rgb,
                    top, bottom, net, local_out, gath, full_out, outfile >>

\* Every operation going straight from the scatter to its loops.
AfterScatter_nohalo == "compute"

AfterScatter == IF operation = "grayscale" THEN "compute" ELSE "halo_up"

\* Rank 0: the layout loop, MPI_Scatterv(full_img, sendcounts, displs, ...,
\* local_rgb.data(), local_rgb.size(), ...), stbi_image_free(full_img).
ScatterRoot ==
    /\ pc[0] = "scatter"
    /\ \E lay \in {LayoutOf(height[0], size, width[0] * channels)} :
          \E chunks \in {[q \in Ranks(size) |->
                            Slice(full_img, lay.displs[q], lay.sendcounts[q], 0)]} :
              /\ scat' = {chunks}
              /\ local_rgb' = [local_rgb EXCEPT
                                 ![0] = Slice(chunks[0], 0,
                                              myrows(0) * width[0] * channels, 0)]
    /\ full_img' = Empty
    /\ pc' = [pc EXCEPT ![0] = AfterScatter]
    /\ UNCHANGED << outsideDist, operation, size, file, garbage, width, height, bcast, top, bottom,
                    net, local_out, gath, full_out, outfile >>

\* Another rank: std::vector local_rgb(myrows*width*channels); MPI_Scatterv
ScatterRecv(rank) ==
    /\ rank # 0
    /\ pc[rank] = "scatter"
    /\ \E chunks \in scat :
          local_rgb' = [local_rgb EXCEPT
                          ![rank] = Slice(chunks[rank], 0,
                                          myrows(rank) * width[rank] * channels, 0)]
    /\ pc' = [pc EXCEPT ![rank] = AfterScatter]
    /\ UNCHANGED << outsideDist, operation, size, file, garbage, full_img, width, height, bcast, scat,
                    top, bottom, net, local_out, gath, full_out, outfile >>

\* std::vector top(..), bottom(..); the send half of
\* MPI_Sendrecv(src, n, .., above, 0, top.data(), n, .., above, 1, ..)
SendrecvUpStart(rank) ==
    /\ pc[rank] = "halo_up"
    /\ top' = [top EXCEPT ![rank] = ZeroVector(HaloBytes(rank))]
    /\ bottom' = [bottom EXCEPT ![rank] = ZeroVector(HaloBytes(rank))]
    /\ net' = IF above(rank) = MPI_PROC_NULL THEN net
              ELSE net \cup
                   {[src |-> rank, dst |-> above(rank), tag |-> 0,
                     data |-> Slice(HaloSource(rank), 0, HaloBytes(rank), garbage)]}
    /\ pc' = [pc EXCEPT ![rank] = "halo_up_wait"]
    /\ UNCHANGED << outsideDist, operation, size, file, garbage, full_img, width, height, bcast, scat,
                    local_rgb, local_out, gath, full_out, outfile >>

\* the receive half: from MPI_PROC_NULL it completes at once and leaves top
\* as it is; otherwise it blocks until the matching message has arrived
SendrecvUpFinish(rank) ==
    /\ pc[rank] = "halo_up_wait"
    /\ IF above(rank) = MPI_PROC_NULL
         THEN UNCHANGED << top, net >>
         ELSE \E m \in net :
                /\ m.src = above(rank)
                /\ m.dst = rank
                /\ m.tag = 1
                /\ top' = [top EXCEPT ![rank] = m.data]
                /\ net' = net \ {m}
    /\ pc' = [pc EXCEPT ![rank] = "halo_down"]
    /\ UNCHANGED << outsideDist, operation, size, file, garbage, full_img, width, height, bcast, scat,
                    local_rgb, bottom, local_out, gath, full_out, outfile >>

\* the send half of MPI_Sendrecv(src+(myrows-R)*rowbytes, n, .., below, 1,
\*                               bottom.data(), n, .., below, 0, ..)
SendrecvDownStart(rank) ==
    /\ pc[rank] = "halo_down"
    /\ net' = IF below(rank) = MPI_PROC_NULL THEN net
              ELSE net \cup
                   {[src |-> rank, dst |-> below(rank), tag |-> 1,
                     data |-> Slice(HaloSource(rank),
                                    (myrows(rank) - Radius(operation))
                                        * width[rank] * HaloChannels(operation),
                                    HaloBytes(rank), garbage)]}
    /\ pc' = [pc EXCEPT ![rank] = "halo_down_wait"]
    /\ UNCHANGED << outsideDist, operation, size, file, garbage, full_img, width, height, bcast, scat,
                    local_rgb, top, bottom, local_out, gath, full_out, outfile >>

SendrecvDownFinish(rank) ==
    /\ pc[rank] = "halo_down_wait"
    /\ IF below(rank) = MPI_PROC_NULL
         THEN UNCHANGED << bottom, net >>
         ELSE \E m \in net :
                /\ m.src = below(rank)
                /\ m.dst = rank
                /\ m.tag = 0
                /\ bottom' = [bottom EXCEPT ![rank] = m.data]
                /\ net' = net \ {m}
    /\ pc' = [pc EXCEPT ![rank] = "compute"]
    /\ UNCHANGED << outsideDist, operation, size, file, garbage, full_img, width, height, bcast, scat,
                    local_rgb, top, local_out, gath, full_out, outfile >>

\* The loops that fill local_gray, local_edge or local_blur.
LocalRows(rank, junk) ==
    CASE operation = "grayscale" ->
            local_gray_of(local_rgb[rank], myrows(rank), width[rank])
      [] operation = "sobel" ->
            mpi_sobel_rows(local_rgb[rank], top[rank], bottom[rank],
                           myrows(rank), width[rank], junk)
      [] operation = "gaussian" ->
            mpi_gaussian_rows(local_rgb[rank], top[rank], bottom[rank],
                              myrows(rank), width[rank], junk)

Compute(rank) ==
    /\ pc[rank] = "compute"
    /\ local_out' = [local_out EXCEPT ![rank] = LocalRows(rank, garbage)]
    /\ pc' = [pc EXCEPT ![rank] = "gather"]
    /\ UNCHANGED << outsideDist, operation, size, file, garbage, full_img, width, height, bcast, scat,
                    local_rgb, top, bottom, net, gath, full_out, outfile >>

\* MPI_Gatherv(local.data(), local.size(), ...) at a rank other than 0
GatherSend(rank) ==
    /\ rank # 0
    /\ pc[rank] = "gather"
    /\ gath' = [gath EXCEPT ![rank] = [posted |-> TRUE, data |-> local_out[rank]]]
    /\ pc' = [pc EXCEPT ![rank] = "done"]
    /\ UNCHANGED << outsideDist, operation, size, file, garbage, full_img, width, height, bcast, scat,
                    local_rgb, top, bottom, net, local_out, full_out, outfile >>

\* The receive buffer after MPI_Gatherv: rank q's bytes at displs2[q]; a byte
\* no rank's range covers keeps the zero of full.resize(n).
Assemble(lay, parts, n) ==
    [i \in 0 .. n - 1 |->
        LET owners == {q \in DOMAIN parts :
                          /\ lay.displs[q] <= i
                          /\ i < lay.displs[q] + lay.sendcounts[q]}
        IN  IF owners = {} THEN 0
            ELSE LET q == CHOOSE o \in owners : \A o2 \in owners : o2 <= o
                 IN  parts[q][i - lay.displs[q]]]

\* Rank 0: the recvcounts/displs2 loop, full.resize(width*height*c),
\* MPI_Gatherv(...): returns once every rank's rows have arrived.
GatherRoot ==
    /\ pc[0] = "gather"
    /\ \A q \in Ranks(size) \ {0} : gath[q].posted
    /\ LET unit == width[0] * OutChannels(operation)
           lay == LayoutOf(height[0], size, unit)
           parts == [q \in Ranks(size) |-> IF q = 0 THEN local_out[0] ELSE gath[q].data]
       IN  full_out' = Assemble(lay, parts, height[0] * unit)
    /\ pc' = [pc EXCEPT ![0] = "export"]
    /\ UNCHANGED << outsideDist, operation, size, file, garbage, full_img, width, height, bcast, scat,
                    local_rgb, top, bottom, net, local_out, gath, outfile >>

\* if(rank==0){ stbi_write_png(output_path, width, height, comp, full.data(), stride) }
Export ==
    /\ pc[0] = "export"
    /\ outfile' = {[width |-> width[0], height |-> height[0],
                    comp |-> OutChannels(operation), data |-> full_out]}
    /\ pc' = [pc EXCEPT ![0] = "done"]
    /\ UNCHANGED << outsideDist, operation, size, file, garbage, full_img, width, height, bcast, scat,
                    local_rgb, top, bottom, net, local_out, gath, full_out >>

Next ==
    \/ Load
    \/ BcastRoot
    \/ ScatterRoot
    \/ GatherRoot
    \/ Export
    \/ \E rank \in Ranks(size) : BcastRecv(rank)
    \/ \E rank \in Ranks(size) : ScatterRecv(rank)
    \/ \E rank \in Ranks(size) : SendrecvUpStart(rank)
    \/ \E rank \in Ranks(size) : SendrecvUpFinish(rank)
    \/ \E rank \in Ranks(size) : SendrecvDownStart(rank)
    \/ \E rank \in Ranks(size) : SendrecvDownFinish(rank)
    \/ \E rank \in Ranks(size) : Compute(rank)
    \/ \E rank \in Ranks(size) : GatherSend(rank)

(***************************************************************************)
(* Reference for the distributed pass: the kernel applied to the whole     *)
(* image with replicate-edge clamping, in the arithmetic of the            *)
(* distributed backend.                                                    *)
(***************************************************************************)
\* The nearest valid coordinate in 0 .. n-1.
Nearest(v, n) == IF v < 0 THEN 0 ELSE IF v > n - 1 THEN n - 1 ELSE v

WholeImage == ImageBuffer(file.pattern, file.width, file.height)

\* The pixel of the whole image nearest to (y, x).
WholePixel(y, x) ==
    PixelOf(file.pattern, file.width, Nearest(y, file.height), Nearest(x, file.width))

WholeGray(y, x) == LET p == WholePixel(y, x) IN to_gray_uc(p[1], p[2], p[3])

WholeSobel(y, x) ==
    LET v == [idx \in 0 .. 8 |->
                WholeGray(y + (idx \div 3) - R_SOBEL, x + (idx % 3) - R_SOBEL)]
        gx == SumTo([idx \in 0 .. 8 |-> v[idx] * sobel_x[idx]], 9)
        gy == SumTo([idx \in 0 .. 8 |-> v[idx] * sobel_y[idx]], 9)
    IN  clamp_uc_sqrt(gx, gy)

WholeGaussian(y, x, c) ==
    LET K == KERNEL_SIZE_GAUSSIAN
        R == GAUSSIAN_RADIUS
    IN  clamp_uc(WeightedSum(GAUSSIAN_9x9,
                             [i \in 0 .. K * K - 1 |->
                                 WholePixel(y + (i \div K) - R, x + (i % K) - R)[c + 1]],
                             K * K),
                 Limb)

\* The pass has run to its end: rank 0 has written the output image.
Finished == pc[0] = "done"

\* The first image row of rank q.
FirstRow(q) == SumTo([p \in Ranks(size) |-> RowsOfRank(file.height, size, p)], q)

\* Row y lies within the kernel radius of an internal partition boundary.
NearBoundary(y) ==
    \E q \in 1 .. size - 1 :
        /\ 0 < FirstRow(q)
        /\ FirstRow(q) < file.height
        /\ FirstRow(q) - Radius(operation) <= y
        /\ y < FirstRow(q) + Radius(operation)

\* C3: in a distributed Gaussian or Sobel run with two or more ranks, every
\* output pixel in a row within the kernel radius of an internal partition
\* boundary, at every column including x = 0 and x = width-1, equals the
\* kernel applied to the whole image with replicate-edge clamping.
C3_HaloCorrect ==
    (Finished /\ operation # "grayscale" /\ size >= 2) =>
        \A y \in 0 .. file.height - 1, x \in 0 .. file.width - 1 :
            NearBoundary(y) =>
                IF operation = "sobel"
                  THEN full_out[y * file.width + x] = WholeSobel(y, x)
                  ELSE \A c \in 0 .. channels - 1 :
                          full_out[(y * file.width + x) * channels + c]
                              = WholeGaussian(y, x, c)

\* The sample a rank takes at local row y, column x (channel c) once its
\* halo exchange is over.
SampleOf(rank, y, x, c) ==
    IF operation = "sobel"
      THEN get_gray(local_gray_of(local_rgb[rank], myrows(rank), width[rank]),
                    top[rank], bottom[rank], myrows(rank), width[rank], y, x, garbage)
      ELSE get_rgb(local_rgb[rank], top[rank], bottom[rank], myrows(rank),
                   width[rank], y, x, c, garbage)

\* The value of the nearest valid image pixel, as the operation samples it.
NearestValue(y, x, c) ==
    IF operation = "sobel" THEN WholeGray(y, x) ELSE WholePixel(y, x)[c + 1]

\* C6: at rank 0 a sample of a row above image row 0, and at rank size-1 a
\* sample of a row below image row height-1, returns the value of the
\* nearest valid image row, never zero or a stale halo value; a single rank
\* included.
C6_EdgeRowsReplicated ==
    \A rank \in Ranks(size) :
        (pc[rank] = "compute" /\ operation # "grayscale" /\ myrows(rank) > 0) =>
            \A d \in 1 .. Radius(operation), x \in 0 .. width[rank] - 1,
               c \in 0 .. HaloChannels(operation) - 1 :
                /\ rank = 0 =>
                      SampleOf(rank, -d, x, c) = NearestValue(-d, x, c)
                /\ rank = size - 1 =>
                      SampleOf(rank, myrows(rank) - 1 + d, x, c)
                          = NearestValue(file.height - 1 + d, x, c)


\* Two buffers have the same size and agree at every byte within 1.
AgreeWithin1(a, b) ==
    /\ DOMAIN a = DOMAIN b
    /\ \A i \in DOMAIN a : Abs(a[i] - b[i]) <= 1

\* C4: for a fixed input image and each filter, the output buffers of the
\* sequential, shared-memory, GPU and distributed backends have the same
\* size and agree at every pixel and channel within 1.
C4_BackendsAgree ==
    Finished =>
        LET outs == [b \in Backends |->
                        HostPass(b, operation, WholeImage, file.width, file.height)]
        IN  /\ \A b \in Backends : AgreeWithin1(outs[b], full_out)
            /\ \A a, b \in Backends : AgreeWithin1(outs[a], outs[b])

\* C8: for an image in which every pixel has the same colour, the Sobel
\* output is 0 at every pixel, first and last rows and columns included, in
\* the sequential, shared-memory and GPU backends and in the distributed
\* backend for every rank count.
C8_UniformSobelZero ==
    (Finished /\ operation = "sobel" /\ file.pattern.kind = "uniform") =>
        /\ \A i \in DOMAIN full_out : full_out[i] = 0
        /\ \A b \in Backends, i \in 0 .. file.width * file.height - 1 :
              HostByte(b, "sobel", WholeImage, file.width, file.height, i) = 0

\* Positions of a rank before the end of its first and of its second
\* MPI_Sendrecv.
BeforeUpDone == {"load", "bcast", "scatter", "halo_up", "halo_up_wait"}
BeforeDownDone == BeforeUpDone \cup {"halo_down", "halo_down_wait"}

\* Every message in flight has one receive still to come that matches it:
\* tag 0 goes to the rank above, which takes it in its second call; tag 1
\* goes to the rank below, which takes it in its first call.  A rank sends
\* nothing to MPI_PROC_NULL and gets nothing from it: its halo on that side
\* stays as constructed.  When every rank is through, nothing is in flight.
HaloMatched ==
    /\ \A m \in net :
          /\ m.src \in Ranks(size)
          /\ m.dst \in Ranks(size)
          /\ m.tag = 0 => m.dst = m.src - 1 /\ pc[m.dst] \in BeforeDownDone
          /\ m.tag = 1 => m.dst = m.src + 1 /\ pc[m.dst] \in BeforeUpDone
          /\ pc[m.src] \notin {"load", "bcast", "scatter", "halo_up"}
          /\ DOMAIN m.data = 0 .. HaloBytes(m.src) - 1
          /\ pc[m.dst] \notin {"load", "bcast"} => HaloBytes(m.dst) = HaloBytes(m.src)
    /\ \A m1, m2 \in net :
          (m1.src = m2.src /\ m1.dst = m2.dst /\ m1.tag = m2.tag) => m1 = m2
    /\ \A rank \in Ranks(size) :
          /\ (pc[rank] \notin BeforeUpDone /\ pc[rank] # "aborted"
              /\ operation # "grayscale" /\ rank = 0) =>
                top[rank] = ZeroVector(HaloBytes(rank))
          /\ (pc[rank] \notin BeforeDownDone /\ pc[rank] # "aborted"
              /\ operation # "grayscale" /\ rank = size - 1) =>
                bottom[rank] = ZeroVector(HaloBytes(rank))
          \* a rank in a call whose partner has sent can return: the
          \* message it waits for is there
          /\ (pc[rank] = "halo_up_wait" /\ rank > 0
              /\ pc[rank - 1] \notin BeforeUpDone \cup {"halo_down", "aborted"}) =>
                \E m \in net : m.src = rank - 1 /\ m.dst = rank /\ m.tag = 1
          /\ (pc[rank] = "halo_down_wait" /\ rank < size - 1
              /\ pc[rank + 1] \notin {"load", "bcast", "scatter", "halo_up", "aborted"}) =>
                \E m \in net : m.src = rank + 1 /\ m.dst = rank /\ m.tag = 0
    /\ (\A rank \in Ranks(size) : pc[rank] \notin BeforeDownDone) => net = {}

\* Every rank has returned from both MPI_Sendrecv calls.
ExchangeDone == \A rank \in Ranks(size) : pc[rank] \notin BeforeDownDone

\* C18: for every rank count, in a Gaussian or Sobel pass on an image that
\* loads, both MPI_Sendrecv calls return on every rank; each message sent
\* up (tag 0) or down (tag 1) is taken by exactly one matching receive, none
\* is left over, and an exchange with MPI_PROC_NULL returns without moving
\* data.
C18_ExchangeCompletes ==
    /\ []HaloMatched
    /\ (file.decodes /\ operation # "grayscale") ~> ExchangeDone

\* Three ranks are through a Gaussian exchange: the middle rank has
\* received from both sides and nothing is in flight.
C18_Witness ==
    /\ operation = "gaussian"
    /\ size >= 3
    /\ ExchangeDone
    /\ net = {}
    /\ HaloBytes(1) > 0
    /\ top[1] # ZeroVector(HaloBytes(1))

\* Bytes of one row of the buffer the halo rows are taken from.
HaloRowBytes(rank) == width[rank] * HaloChannels(operation)

\* The first byte of the rows a message was sent from: local rows [0, R)
\* upward (tag 0), local rows [myrows-R, myrows) downward (tag 1).
SentFrom(m) ==
    IF m.tag = 0 THEN 0
    ELSE (myrows(m.src) - Radius(operation)) * HaloRowBytes(m.src)

\* Rows y0 .. y0+n-1 of the whole image as the operation exchanges them
\* (gray bytes for Sobel, RGB bytes for Gaussian).
ImageRows(y0, n) ==
    IF operation = "sobel"
      THEN [i \in 0 .. n * file.width - 1 |->
               WholeGray(y0 + i \div file.width, i % file.width)]
      ELSE Slice(WholeImage, y0 * file.width * channels, n * file.width * channels, 0)

\* C17: in a distributed Gaussian or Sobel pass every halo message is read
\* from inside the sender's local buffer (R whole local rows, the first R
\* upward and the last R downward), and once a rank's exchange is over its
\* top halo holds the R image rows directly above its partition and its
\* bottom halo the R image rows directly below it; for every height and
\* rank count, partitions with fewer than R rows included.
C17_HaloRowsInBounds ==
    /\ \A m \in net :
          /\ 0 <= SentFrom(m)
          /\ SentFrom(m) + HaloBytes(m.src) <= myrows(m.src) * HaloRowBytes(m.src)
          /\ m.data = Slice(HaloSource(m.src), SentFrom(m), HaloBytes(m.src), 0)
    /\ \A rank \in Ranks(size) :
          (pc[rank] = "compute" /\ operation # "grayscale") =>
              LET R == Radius(operation)
                  first == FirstRow(rank)
                  last == FirstRow(rank) + myrows(rank)
              IN  /\ rank > 0 =>
                        /\ first - R >= 0
                        /\ top[rank] = ImageRows(first - R, R)
                  /\ rank < size - 1 =>
                        /\ last + R <= file.height
                        /\ bottom[rank] = ImageRows(last, R)

\* The position a rank reaches when it leaves position p: the statements
\* of mpi_grayscale, mpi_sobel and mpi_gaussian in the order they are written.
StepAfter(rank, p) ==
    CASE p = "load" -> "bcast"
      [] p = "bcast" -> "scatter"
      [] p = "scatter" -> IF operation = "grayscale" THEN "compute" ELSE "halo_up"
      [] p = "halo_up" -> "halo_up_wait"
      [] p = "halo_up_wait" -> "halo_down"
      [] p = "halo_down" -> "halo_down_wait"
      [] p = "halo_down_wait" -> "compute"
      [] p = "compute" -> "gather"
      [] p = "gather" -> IF rank = 0 THEN "export" ELSE "done"
      [] p = "export" -> "done"
      [] OTHER -> p

\* The rows of the image rank 0 scattered to a rank.
ScatteredRows(rank) ==
    Slice(WholeImage, FirstRow(rank) * file.width * channels,
          RowsOfRank(file.height, size, rank) * file.width * channels, 0)

\* What the neighbour above (below) sent to a rank in its second (first)
\* MPI_Sendrecv.
SentDownTo(rank) ==
    Slice(HaloSource(rank - 1),
          (myrows(rank - 1) - Radius(operation)) * HaloRowBytes(rank - 1),
          HaloBytes(rank - 1), garbage)
SentUpTo(rank) == Slice(HaloSource(rank + 1), 0, HaloBytes(rank + 1), garbage)

\* A rank holds what it computes from: the broadcast sizes, its scattered
\* rows and, for Sobel and Gaussian, the halo of every neighbour it has.
InputsArrived(rank) ==
    /\ width[rank] = file.width
    /\ height[rank] = file.height
    /\ local_rgb[rank] = ScatteredRows(rank)
    /\ operation # "grayscale" =>
          /\ \A m \in net : m.dst # rank
          /\ rank > 0 => top[rank] = SentDownTo(rank)
          /\ rank < size - 1 => bottom[rank] = SentUpTo(rank)

\* The gather has put the rows of every rank into rank 0's buffer.
GatherDelivered ==
    /\ \A q \in Ranks(size) \ {0} : gath[q].posted /\ pc[q] = "done"
    /\ \A q \in Ranks(size) :
          LET unit == file.width * OutChannels(operation)
          IN  /\ DOMAIN local_out[q] = 0 .. RowsOfRank(file.height, size, q) * unit - 1
              /\ \A i \in DOMAIN local_out[q] :
                    full_out[FirstRow(q) * unit + i] = local_out[q][i]

\* One step of the pass keeps the order of the statements, computes only
\* from inputs that have arrived and writes the file only after the gather.
OrderedStep ==
    /\ \A rank \in Ranks(size) :
          /\ pc'[rank] # pc[rank] =>
                pc'[rank] \in {StepAfter(rank, pc[rank]), "aborted"}
          /\ local_out'[rank] # local_out[rank] =>
                /\ pc[rank] = "compute"
                /\ InputsArrived(rank)
          /\ pc'[rank] = "gather" /\ pc[rank] # "gather" =>
                /\ pc[rank] = "compute"
                /\ InputsArrived(rank)
    /\ outfile' # outfile =>
          /\ pc[0] = "export"
          /\ GatherDelivered

\* A grayscale pass exchanges nothing: no rank is in an MPI_Sendrecv, no
\* halo message is in flight and no halo buffer exists.
NoHaloForGrayscale ==
    operation = "grayscale" =>
        /\ net = {}
        /\ \A rank \in Ranks(size) :
              /\ pc[rank] \notin {"halo_up", "halo_up_wait", "halo_down", "halo_down_wait"}
              /\ top[rank] = Empty
              /\ bottom[rank] = Empty

\* The pass ends in the order of its steps: a rank that has computed or
\* contributed has what it computes from; a written file holds every rank's
\* rows.
OrderKept ==
    /\ \A rank \in Ranks(size) :
          pc[rank] \in {"gather", "export", "done"} => InputsArrived(rank)
    /\ pc[0] \in {"export", "done"} => GatherDelivered
    /\ outfile # {} => pc[0] = "done"

\* C19: on every rank an image goes through the same steps in the same
\* order: broadcast sizes, scattered rows, both halo exchanges (Sobel and
\* Gaussian only), the local computation, the gather; no rank computes
\* before its scattered rows and its halos have arrived, a grayscale pass
\* exchanges no halo, and rank 0 writes the output file only after the
\* gather has delivered the rows of every rank.
C19_StepOrder ==
    /\ [][OrderedStep]_vars
    /\ []NoHaloForGrayscale
    /\ []OrderKept

\* A Sobel pass on two or more ranks has run to its end and the file is
\* written.
C19_Witness ==
    /\ operation = "sobel"
    /\ size >= 2
    /\ \A rank \in Ranks(size) : pc[rank] = "done"
    /\ outfile # {}
    /\ local_out[1] # Empty

\* The layouts rank 0 computes for an image: of the scatter, in input
\* bytes, and of the gather, in output bytes.
ScatterLayout == LayoutOf(file.height, size, file.width * channels)
GatherLayout == LayoutOf(file.height, size, file.width * OutChannels(operation))

\* A layout tiles a buffer of h rows of unit bytes: rank q's range starts
\* at its first row and has its row count, and the counts sum to the buffer.
Tiles(lay, unit) ==
    /\ \A q \in Ranks(size) :
          /\ lay.displs[q] = FirstRow(q) * unit
          /\ lay.sendcounts[q] = RowsOfRank(file.height, size, q) * unit
    /\ SumTo(lay.sendcounts, size) = file.height * unit

\* Positions of a rank that has its scattered rows.
HasRows == {"halo_up", "halo_up_wait", "halo_down", "halo_down_wait",
            "compute", "gather", "export", "done"}

\* C20: the counts and displacements of the scatter tile the input buffer
\* (displacement of rank r = first row of r * width * channels, counts
\* summing to width * height * channels); the size of the receive buffer a
\* rank computes for itself is the count rank 0 computed for it; the gather
\* uses the same row partition in output bytes; gathering the scattered
\* rows as they are gives the original buffer back, and every output row of
\* the gathered buffer is the row its owner produced.
C20_ScatterGatherInverse ==
    file.decodes =>
        /\ Tiles(ScatterLayout, file.width * channels)
        /\ Tiles(GatherLayout, file.width * OutChannels(operation))
        /\ \A chunks \in scat : \A q \in Ranks(size) :
              chunks[q] = Slice(WholeImage, ScatterLayout.displs[q],
                                ScatterLayout.sendcounts[q], 0)
        /\ \A rank \in Ranks(size) :
              pc[rank] \in HasRows =>
                 /\ DOMAIN local_rgb[rank] = 0 .. ScatterLayout.sendcounts[rank] - 1
                 /\ \A i \in DOMAIN local_rgb[rank] :
                       local_rgb[rank][i] = WholeImage[ScatterLayout.displs[rank] + i]
        /\ (\A rank \in Ranks(size) : pc[rank] \in HasRows) =>
              Assemble(ScatterLayout, local_rgb,
                       file.width * file.height * channels) = WholeImage
        /\ \A rank \in Ranks(size) :
              pc[rank] \in {"gather", "export", "done"} =>
                 DOMAIN local_out[rank] = 0 .. GatherLayout.sendcounts[rank] - 1
        /\ pc[0] \in {"export", "done"} =>
              /\ DOMAIN full_out =
                    0 .. file.width * file.height * OutChannels(operation) - 1
              /\ \A q \in Ranks(size) : \A i \in DOMAIN local_out[q] :
                    full_out[GatherLayout.displs[q] + i] = local_out[q][i]

\* A Gaussian pass on ranks with unequal row counts has gathered its
\* output.
C20_Witness ==
    /\ operation = "gaussian"
    /\ size >= 2
    /\ file.decodes
    /\ file.height % size # 0
    /\ file.height > size
    /\ pc[0] = "done"
    /\ full_out # Empty


(***************************************************************************)
(* The filter pass of a single-process backend: one step is one iteration  *)
(* of the loop over y (sequential, and OpenMP's parallel for over y, whose *)
(* iterations run in any order) or one warp of the 16 x 16 thread block    *)
(* (two rows of threads, in lockstep; warps run in any order).             *)
(***************************************************************************)
\* Output byte indices of row y.
RowBytes(y) ==
    y * himg.width * OutputChannels(hop)
        .. (y + 1) * himg.width * OutputChannels(hop) - 1

\* The neighbour samples of output pixel (x, y): for every kernel offset the
\* index read and the three bytes found there.
PixelSamples(x, y) ==
    IF hop = "grayscale" THEN {}
    ELSE LET k == KernelSize(hbackend, hop)
             half == k \div 2
         IN  {LET kx == (i % k) - half
                  ky == (i \div k) - half
                  idx == IF hbackend = "gpu"
                           THEN DeviceIndex(himg.width, himg.height, channels,
                                            x, y, kx, ky)
                           ELSE SampleIndex(himg.width, himg.height, channels,
                                            x, y, kx, ky)
              IN  [x |-> x, y |-> y, kx |-> kx, ky |-> ky, idx |-> idx,
                   val |-> << hin[idx], hin[idx + 1], hin[idx + 2] >>]
              : i \in 0 .. k * k - 1}

\* The step that runs the rows ys.
RunRows(ys) ==
    LET new == UNION {RowBytes(y) : y \in ys}
    IN  /\ hout' = [i \in DOMAIN hout \cup new |->
                       IF i \in new
                         THEN HostByte(hbackend, hop, hin, himg.width, himg.height, i)
                         ELSE hout[i]]
        /\ hsamples' = UNION {PixelSamples(x, y) : x \in 0 .. himg.width - 1, y \in ys}
        /\ hrows' = hrows \cup ys
        /\ UNCHANGED << outsideHost, hbackend, hop, himg, hin >>

\* The images a single-process pass is run on.
HostFiles ==
    {f \in ImageFiles : f.width <= MaxHostWidth /\ f.height <= MaxHostHeight}

HostInit ==
    \E b \in Backends, op \in Operations, f \in HostFiles :
        /\ hbackend = b
        /\ hop = op
        /\ himg = f
        /\ hin = ImageBuffer(f.pattern, f.width, f.height)
        /\ hrows = {}
        /\ hout = [i \in {} |-> 0]
        /\ hsamples = {}

\* for (int y = 0; y < h; ++y) { for (int x = 0; x < w; ++x) { ... } }
SeqRow ==
    /\ hbackend = "sequential"
    /\ \E y \in 0 .. himg.height - 1 :
          /\ hrows = 0 .. y - 1
          /\ RunRows({y})

\* #pragma omp parallel for over y: iteration y, on whichever thread
OmpRow ==
    /\ hbackend = "omp"
    /\ \E y \in (0 .. himg.height - 1) \ hrows : RunRows({y})

\* kernel<<<grid, block>>> with dim3 block(16, 16): warp k of a block holds
\* the threads of rows 2k and 2k+1; if (x >= width || y >= height) return;
GpuWarp ==
    /\ hbackend = "gpu"
    /\ \E k \in 0 .. (himg.height - 1) \div 2 :
          /\ 2 * k \notin hrows
          /\ RunRows({2 * k, 2 * k + 1} \cap (0 .. himg.height - 1))

HostNext == SeqRow \/ OmpRow \/ GpuWarp

\* C5: in the sequential, shared-memory and GPU filters, for every pixel and
\* every kernel offset the sampled neighbour is the pixel at the coordinate
\* clamped into [0, width-1] x [0, height-1]: never outside the input
\* buffer, wrapped to the opposite edge, or replaced by zero.
C5_SamplesClamped ==
    /\ \A s \in hsamples :
          LET nx == Nearest(s.x + s.kx, himg.width)
              ny == Nearest(s.y + s.ky, himg.height)
          IN  /\ s.idx = (ny * himg.width + nx) * channels
              /\ s.idx >= 0
              /\ s.idx + channels - 1 <= himg.width * himg.height * channels - 1
              /\ s.val = PixelOf(himg.pattern, himg.width, ny, nx)
              /\ (s.x + s.kx = -1 => nx = 0)
              /\ (s.x + s.kx = himg.width => nx = himg.width - 1)
              /\ (s.y + s.ky = -1 => ny = 0)
              /\ (s.y + s.ky = himg.height => ny = himg.height - 1)
    \* every offset of every pixel of the step's rows has been sampled
    /\ (hop # "grayscale" /\ hrows # {}) =>
          LET half == KernelSize(hbackend, hop) \div 2
              ys == {s.y : s \in hsamples}
          IN  /\ ys # {}
              /\ ys \subseteq hrows
              /\ {<< s.x, s.y, s.kx, s.ky >> : s \in hsamples}
                    = (0 .. himg.width - 1) \X ys \X (-half .. half) \X (-half .. half)

\* A Gaussian step of the last row of a non-uniform image has sampled, from
\* the corner pixel, the neighbour one column left of the image and one row
\* below it, and read the corner pixel itself.
C5_Witness ==
    /\ hop = "gaussian"
    /\ himg.width = 2
    /\ himg.height >= 2
    /\ himg.pattern.kind = "cycle"
    /\ \E s \in hsamples :
          /\ s.x = 0
          /\ s.y = himg.height - 1
          /\ s.kx = -1
          /\ s.ky = 1
          /\ s.idx = (himg.height - 1) * himg.width * channels
          /\ s.val = PixelOf(himg.pattern, himg.width, himg.height - 1, 0)

\* 0.299 r + 0.587 g + 0.114 b rounded to the nearest integer, in [0, 255].
RoundedLuma(r, g, b) ==
    LET n == (2 * Luma1000(r, g, b) + 1000) \div 2000
    IN  IF n > 255 THEN 255 ELSE n

\* C7: in every backend the grayscale value of a pixel is 0.299r + 0.587g +
\* 0.114b rounded to the nearest integer (not truncated) and clamped to
\* [0, 255]; (255,0,0), (0,255,0), (0,0,255), (255,255,255) give 76, 150,
\* 29, 255.
C7_GrayscaleRounded ==
    hop = "grayscale" =>
        /\ \A i \in DOMAIN hout :
              LET p == PixelOf(himg.pattern, himg.width, i \div himg.width, i % himg.width)
              IN  hout[i] = RoundedLuma(p[1], p[2], p[3])
        /\ (/\ himg.pattern.kind = "cycle"
            /\ himg.width = 2
            /\ himg.height = 2
            /\ hrows = {0, 1}) =>
              hout = (0 :> 76) @@ (1 :> 150) @@ (2 :> 29) @@ (3 :> 255)

(***************************************************************************)
(* main of each program.  Sequential, OpenMP and GPU: validate, load the   *)
(* folder, process, export, write timings.json.  MPI: list the images,     *)
(* then one collective filter call per image.  File-per-rank MPI: each     *)
(* rank loads, processes and saves the files of its own indices.  The      *)
(* filter itself is one step here; a measured time is an attribute of the  *)
(* folder entry.                                                           *)
(***************************************************************************)
HostPrograms == {"sequential", "omp", "gpu"}
Programs == HostPrograms \cup {"mpi", "mpi_files"}

Running == "running"

\* Folder entries: images that decode and one that does not, with the
\* times their load, filter and export take; chars is the file name
\* (stem + extension) character by character; key is the place of the
\* entry's path in the order of std::string.  Two entries share a stem, and
\* one name holds a double quote and a backslash.
Entries ==
    { [stem |-> "a", ext |-> ".jpg", key |-> 1, decodes |-> TRUE,
       chars |-> << "a", ".", "j", "p", "g" >>,
       load_ms |-> 128, process_ms |-> 256, save_ms |-> 512],
      [stem |-> "a", ext |-> ".png", key |-> 2, decodes |-> TRUE,
       chars |-> << "a", ".", "p", "n", "g" >>,
       load_ms |-> 1, process_ms |-> 2, save_ms |-> 4],
      [stem |-> "b", ext |-> ".jpg", key |-> 3, decodes |-> TRUE,
       chars |-> << "b", ".", "j", "p", "g" >>,
       load_ms |-> 8, process_ms |-> 16, save_ms |-> 32],
      [stem |-> "c", ext |-> ".png", key |-> 4, decodes |-> FALSE,
       chars |-> << "c", ".", "p", "n", "g" >>,
       load_ms |-> 64, process_ms |-> 0, save_ms |-> 0],
      [stem |-> "q\"\\", ext |-> ".png", key |-> 5, decodes |-> TRUE,
       chars |-> << "q", "\"", "\\", ".", "p", "n", "g" >>,
       load_ms |-> 1024, process_ms |-> 2048, save_ms |-> 4096] }

\* images.push_back(input_dir): the one path the MPI main takes for an
\* argv[1] that is not a directory; stbi_load cannot open it.
MissingPath ==
    [stem |-> "in", ext |-> "", key |-> 0, decodes |-> FALSE,
     chars |-> << "i", "n" >>, load_ms |-> 0, process_ms |-> 0, save_ms |-> 0]

\* Folders of at most MaxFiles distinct entries, in any iteration order.
Folders ==
    UNION {{f \in [1 .. n -> Entries] : \A i, j \in 1 .. n : i # j => f[i] # f[j]}
            : n \in 0 .. MaxFiles}

\* argv[3] as given: the three operations and one that is none of them.
GivenOperations == Operations \cup {"blur"}

ZeroTotal == [load |-> 0, process |-> 0, export |-> 0]

\* The file-per-rank main is modelled for valid arguments only: the branch
\* it takes for an unknown operation is elided in its source.
MainInit ==
    \E p \in Programs, n \in 1 .. 4, o \in GivenOperations, d \in Folders,
       x \in {"present", "missing"}, r \in 1 .. MaxRanks :
        /\ p \in HostPrograms => r = 1
        /\ x = "missing" => d = << >>
        /\ p = "mpi_files" => n = 4 /\ o \in Operations
        /\ mprogram = p
        /\ margc = n
        /\ mop = o
        /\ mfolder = d
        /\ mdir = x
        /\ mranks = r
        /\ mpc = "start"
        /\ mnext = 1
        /\ mdone = {}
        /\ images = << >>
        /\ timings = << >>
        /\ total = [q \in Ranks(r) |-> ZeroTotal]
        /\ mloads = 0
        /\ moutputs = {}
        /\ mjson = {}
        /\ mexit = Running

\* return code;
Exit(code) ==
    /\ mpc' = "exit"
    /\ mexit' = code

RECURSIVE get_json_name(_)
\* std::string get_json_name() const: for (char c : full_name)
\*   '\\' -> "\\\\", '"' -> "\\\"", any other c -> c
get_json_name(full_name) ==
    IF full_name = << >> THEN << >>
    ELSE LET c == Head(full_name)
             safe == IF c = "\\" THEN << "\\", "\\" >>
                     ELSE IF c = "\"" THEN << "\\", "\"" >>
                     ELSE << c >>
         IN  safe \o get_json_name(Tail(full_name))

\* (fs::path(output_folder) / (img.name + "_" + op + ".png"));
\* outpath + "_grayscale.png" / "_gaussian.png" / "_sobel.png"
OutputName(stem) == << stem, "_", mop, ".png" >>

\* f[1] + ... + f[Len(f)] of one field of a sequence of records
SumOver(seq, field) == SumTo([i \in 0 .. Len(seq) - 1 |-> seq[i + 1][field]], Len(seq))

\* if (argc < 4) return 1; ... else { "Unknown operation"; return 1; }
\* fs::create_directories(output_folder);
MainArgs ==
    /\ mprogram \in HostPrograms
    /\ mpc = "start"
    /\ IF margc < 4 \/ mop \notin Operations
         THEN Exit(1)
         ELSE mpc' = "load" /\ UNCHANGED mexit
    /\ UNCHANGED << outsideMain, mprogram, margc, mop, mfolder, mdir, mranks, mnext, mdone,
                    images, timings, total, mloads, moutputs, mjson >>

\* fs::directory_iterator(folder) on a path that does not exist throws
\* std::filesystem::filesystem_error; main catches nothing, so the process
\* ends in std::terminate (abort, status 134).
MainNoFolder ==
    /\ mprogram \in HostPrograms
    /\ mpc = "load"
    /\ mdir = "missing"
    /\ Exit(134)
    /\ UNCHANGED << outsideMain, mprogram, margc, mop, mfolder, mdir, mranks, mnext, mdone,
                    images, timings, total, mloads, moutputs, mjson >>

\* The load loop with a failed load ending the run: return 1 in place of
\* continue.
MainLoad_stop ==
    /\ mprogram \in HostPrograms
    /\ mpc = "load"
    /\ mdir = "present"
    /\ mnext <= Len(mfolder)
    /\ LET e == mfolder[mnext]
       IN  IF e.decodes
             THEN /\ images' = Append(images,
                                      [name |-> e.stem, ext |-> e.ext, entry |-> e,
                                       time_load_ms |-> e.load_ms,
                                       time_process_ms |-> 0, time_save_ms |-> 0])
                  /\ UNCHANGED << mpc, mexit >>
             ELSE Exit(1) /\ UNCHANGED images
    /\ mloads' = mloads + 1
    /\ mnext' = mnext + 1
    /\ UNCHANGED << outsideMain, mprogram, margc, mop, mfolder, mdir, mranks, mdone,
                    timings, total, moutputs, mjson >>

\* One iteration of for (entry : directory_iterator(folder)): stbi_load,
\* time_load_ms, and on failure continue, else images.push_back(img)
MainLoad ==
    /\ mprogram \in HostPrograms
    /\ mpc = "load"
    /\ mdir = "present"
    /\ mnext <= Len(mfolder)
    /\ LET e == mfolder[mnext]
       IN  images' = IF e.decodes
                       THEN Append(images,
                                   [name |-> e.stem, ext |-> e.ext, entry |-> e,
                                    time_load_ms |-> e.load_ms,
                                    time_process_ms |-> 0, time_save_ms |-> 0])
                       ELSE images
    /\ mloads' = mloads + 1
    /\ mnext' = mnext + 1
    /\ UNCHANGED << outsideMain, mprogram, margc, mop, mfolder, mdir, mranks, mpc, mdone,
                    timings, total, moutputs, mjson, mexit >>

\* if (images.empty()) { "No images found"; return 1; }
MainLoaded ==
    /\ mprogram \in HostPrograms
    /\ mpc = "load"
    /\ mdir = "present"
    /\ mnext > Len(mfolder)
    /\ IF images = << >>
         THEN Exit(1) /\ UNCHANGED mnext
         ELSE mpc' = "process" /\ mnext' = 1 /\ UNCHANGED mexit
    /\ UNCHANGED << outsideMain, mprogram, margc, mop, mfolder, mdir, mranks, mdone,
                    images, timings, total, mloads, moutputs, mjson >>

\* One iteration of for (auto& img : images) { apply_...; img.time_process_ms }
\* (time_gpu_ms in the GPU main); after the last one the export loop starts.
MainProcess ==
    /\ mprogram \in HostPrograms
    /\ mpc = "process"
    /\ images' = [images EXCEPT ![mnext].time_process_ms = images[mnext].entry.process_ms]
    /\ IF mnext = Len(images)
         THEN mpc' = "export" /\ mnext' = 1
         ELSE mnext' = mnext + 1 /\ UNCHANGED mpc
    /\ UNCHANGED << outsideMain, mprogram, margc, mop, mfolder, mdir, mranks, mdone,
                    timings, total, mloads, moutputs, mjson, mexit >>

\* stbi_write_png(outPath, ...); img.time_save_ms: in a loop (sequential) or
\* by one std::thread per image, joined before the totals (OpenMP, GPU).
MainExport ==
    /\ mprogram \in HostPrograms
    /\ mpc = "export"
    /\ \E j \in (1 .. Len(images)) \ mdone :
          /\ mprogram = "sequential" => mdone = 1 .. j - 1
          /\ moutputs' = moutputs \cup {OutputName(images[j].name)}
          /\ images' = [images EXCEPT ![j].time_save_ms = images[j].entry.save_ms]
          /\ mdone' = mdone \cup {j}
    /\ UNCHANGED << outsideMain, mprogram, margc, mop, mfolder, mdir, mranks, mpc, mnext,
                    timings, total, mloads, mjson, mexit >>

\* The entries of individual_image_times as main prints them; written is
\* the text put between the two quotes of "image_name": "...".
ImageEntries ==
    [i \in 1 .. Len(images) |->
        [image_name |-> << images[i].name, images[i].ext >>,
         written |-> get_json_name(images[i].entry.chars),
         load_ms |-> images[i].time_load_ms,
         process_ms |-> images[i].time_process_ms,
         export_ms |-> images[i].time_save_ms]]

\* total_load_ms += img.time_load_ms; ... for every image; timings.json; return 0
MainTotals ==
    /\ mprogram \in HostPrograms
    /\ mpc = "export"
    /\ mdone = 1 .. Len(images)
    /\ LET sums == [load |-> SumOver(images, "time_load_ms"),
                    process |-> SumOver(images, "time_process_ms"),
                    export |-> SumOver(images, "time_save_ms")]
       IN  /\ total' = [total EXCEPT ![0] = sums]
           /\ mjson' = {[file |-> "timings.json",
                         total_loading_time |-> sums.load,
                         total_processing_time |-> sums.process,
                         total_exporting_time |-> sums.export,
                         individual_image_times |-> ImageEntries]}
    /\ Exit(0)
    /\ UNCHANGED << outsideMain, mprogram, margc, mop, mfolder, mdir, mranks, mnext, mdone,
                    images, timings, mloads, moutputs >>

\* The paths of a folder that pass the extension filter, after
\* std::sort(images.begin(), images.end()).
SortedPaths(folder) ==
    LET found == {folder[i] : i \in {k \in 1 .. Len(folder) :
                                        folder[k].ext \in {".jpg", ".png", ".jpeg"}}}
    IN  CHOOSE f \in [1 .. Cardinality(found) -> found] :
            \A i, j \in 1 .. Cardinality(found) : i < j => f[i].key < f[j].key

\* MPI main: if (argc < 4) { MPI_Finalize(); return 1; }; rank 0 lists and
\* sorts the images (argv[1] itself when it is not a directory);
\* image_count and the paths are broadcast.
MpiArgs ==
    /\ mprogram = "mpi"
    /\ mpc = "start"
    /\ IF margc < 4
         THEN Exit(1) /\ UNCHANGED images
         ELSE /\ images' = IF mdir = "missing" THEN << MissingPath >>
                            ELSE SortedPaths(mfolder)
              /\ mpc' = "loop"
              /\ UNCHANGED mexit
    /\ UNCHANGED << outsideMain, mprogram, margc, mop, mfolder, mdir, mranks, mnext, mdone,
                    timings, total, mloads, moutputs, mjson >>

\* The image loop with a failed load skipped: the filter call returns
\* without MPI_Abort and the loop goes on to the next path.
MpiImage_skip ==
    /\ mprogram = "mpi"
    /\ mpc = "loop"
    /\ mnext <= Len(images)
    /\ LET e == images[mnext]
       IN  IF mop \notin Operations
             THEN Exit(1) /\ UNCHANGED << mnext, timings, total, mloads, moutputs >>
           ELSE IF ~e.decodes
             THEN /\ mloads' = mloads + 1
                  /\ mnext' = mnext + 1
                  /\ UNCHANGED << mpc, mexit, timings, total, moutputs >>
           ELSE /\ mloads' = mloads + 1
                /\ moutputs' = moutputs \cup {OutputName(e.stem)}
                /\ timings' = Append(timings,
                                     [image_name |-> << e.stem, e.ext >>,
                                      written |-> e.chars,
                                      load_ms |-> e.load_ms,
                                      process_ms |-> e.process_ms,
                                      export_ms |-> e.save_ms])
                /\ total' = [total EXCEPT
                               ![0] = [load |-> total[0].load + e.load_ms,
                                       process |-> total[0].process + e.process_ms,
                                       export |-> total[0].export + e.save_ms]]
                /\ mnext' = mnext + 1
                /\ UNCHANGED << mpc, mexit >>
    /\ UNCHANGED << outsideMain, mprogram, margc, mop, mfolder, mdir, mranks, mdone,
                    images, mjson >>

\* One iteration of for (auto &infile : images): the filter call of the
\* operation (which loads, filters and writes the image, or MPI_Aborts when
\* rank 0 cannot load it) or MPI_Abort for an unknown operation; then rank 0
\* pushes the timing and adds it to the totals; MPI_Barrier.
MpiImage ==
    /\ mprogram = "mpi"
    /\ mpc = "loop"
    /\ mnext <= Len(images)
    /\ LET e == images[mnext]
       IN  IF mop \notin Operations
             THEN Exit(1) /\ UNCHANGED << mnext, timings, total, mloads, moutputs >>
           ELSE IF ~e.decodes
             THEN /\ Exit(1)
                  /\ mloads' = mloads + 1
                  /\ UNCHANGED << mnext, timings, total, moutputs >>
           ELSE /\ mloads' = mloads + 1
                /\ moutputs' = moutputs \cup {OutputName(e.stem)}
                /\ timings' = Append(timings,
                                     [image_name |-> << e.stem, e.ext >>,
                                      written |-> e.chars,
                                      load_ms |-> e.load_ms,
                                      process_ms |-> e.process_ms,
                                      export_ms |-> e.save_ms])
                /\ total' = [total EXCEPT
                               ![0] = [load |-> total[0].load + e.load_ms,
                                       process |-> total[0].process + e.process_ms,
                                       export |-> total[0].export + e.save_ms]]
                /\ mnext' = mnext + 1
                /\ UNCHANGED << mpc, mexit >>
    /\ UNCHANGED << outsideMain, mprogram, margc, mop, mfolder, mdir, mranks, mdone,
                    images, mjson >>

\* After the loop: rank 0 writes timings.json; MPI_Finalize(); return 0;
MpiJson ==
    /\ mprogram = "mpi"
    /\ mpc = "loop"
    /\ mnext > Len(images)
    /\ mjson' = {[file |-> "timings.json",
                  total_loading_time |-> total[0].load,
                  total_processing_time |-> total[0].process,
                  total_exporting_time |-> total[0].export,
                  individual_image_times |-> timings]}
    /\ Exit(0)
    /\ UNCHANGED << outsideMain, mprogram, margc, mop, mfolder, mdir, mranks, mnext, mdone,
                    images, timings, total, mloads, moutputs >>

\* File-per-rank main: rank 0 creates the output folder and lists the
\* regular files; num_files and the paths are broadcast;
\* if (num_files == 0) { MPI_Finalize(); return 1; }
FilesStart ==
    /\ mprogram = "mpi_files"
    /\ mpc = "start"
    /\ images' = mfolder
    /\ IF mdir = "missing"
         THEN Exit(134)
       ELSE IF mfolder = << >>
         THEN Exit(1)
         ELSE mpc' = "loop" /\ UNCHANGED mexit
    /\ UNCHANGED << outsideMain, mprogram, margc, mop, mfolder, mdir, mranks, mnext, mdone,
                    timings, total, mloads, moutputs, mjson >>

\* The 1-based index of the file rank handles next in
\* for (int i = world_rank; i < num_files; i += world_size).
NextFileOf(rank) ==
    LET mine == {i \in (1 .. Len(images)) \ mdone : (i - 1) % mranks = rank}
    IN  IF mine = {} THEN 0 ELSE CHOOSE i \in mine : \A j \in mine : i <= j

\* One iteration of that loop at one rank: load, my_total_load +=
\* img.time_load_ms, on failure continue; process, save, my_images.push_back
FilesImage ==
    /\ mprogram = "mpi_files"
    /\ mpc = "loop"
    /\ \E rank \in Ranks(mranks) :
          /\ NextFileOf(rank) # 0
          /\ LET i == NextFileOf(rank)
                 e == images[i]
             IN  /\ mloads' = mloads + 1
                 /\ mdone' = mdone \cup {i}
                 /\ IF e.decodes
                      THEN /\ total' = [total EXCEPT
                                  ![rank] = [load |-> total[rank].load + e.load_ms,
                                             process |-> total[rank].process + e.process_ms,
                                             export |-> total[rank].export + e.save_ms]]
                           /\ moutputs' = moutputs \cup {OutputName(e.stem)}
                      ELSE /\ total' = [total EXCEPT
                                  ![rank].load = total[rank].load + e.load_ms]
                           /\ UNCHANGED moutputs
    /\ UNCHANGED << outsideMain, mprogram, margc, mop, mfolder, mdir, mranks, mpc, mnext,
                    images, timings, mjson, mexit >>

\* MPI_Reduce of the three totals to rank 0; rank 0 writes time.json with
\* the totals and one "MPI_Note" entry; MPI_Finalize(); return 0;
FilesJson ==
    /\ mprogram = "mpi_files"
    /\ mpc = "loop"
    /\ mdone = 1 .. Len(images)
    /\ mjson' = {[file |-> "time.json",
                  total_loading_time |->
                      SumTo([q \in Ranks(mranks) |-> total[q].load], mranks),
                  total_processing_time |->
                      SumTo([q \in Ranks(mranks) |-> total[q].process], mranks),
                  total_exporting_time |->
                      SumTo([q \in Ranks(mranks) |-> total[q].export], mranks),
                  individual_image_times |->
                      << [image_name |-> << "MPI_Note", "" >>,
                          written |-> << "M", "P", "I", "_", "N", "o", "t", "e" >>,
                          load_ms |-> 0,
                          process_ms |-> 0, export_ms |-> 0] >>]}
    /\ Exit(0)
    /\ UNCHANGED << outsideMain, mprogram, margc, mop, mfolder, mdir, mranks, mnext, mdone,
                    images, timings, total, mloads, moutputs >>

MainNext ==
    \/ MainArgs
    \/ MainNoFolder
    \/ MainLoad
    \/ MainLoaded
    \/ MainProcess
    \/ MainExport
    \/ MainTotals
    \/ MpiArgs
    \/ MpiImage
    \/ MpiJson
    \/ FilesStart
    \/ FilesImage
    \/ FilesJson

\* The names of the folder's entries that decode.
Decodable == {<< mfolder[i].stem, mfolder[i].ext >> :
                 i \in {k \in 1 .. Len(mfolder) : mfolder[k].decodes}}

\* C9: in the timing output of every backend each of the three totals equals
\* the sum of load_ms, process_ms, export_ms over exactly the entries listed
\* in individual_image_times; an image that failed to load appears in no
\* entry and contributes to no total.
C9_TotalsAreSums ==
    \A j \in mjson :
        LET listed == j.individual_image_times
        IN  /\ j.total_loading_time = SumOver(listed, "load_ms")
            /\ j.total_processing_time = SumOver(listed, "process_ms")
            /\ j.total_exporting_time = SumOver(listed, "export_ms")
            /\ \A i \in 1 .. Len(listed) : listed[i].image_name \in Decodable

\* C10: when fewer than three arguments are given, or the operation is not
\* one of grayscale, gaussian, sobel, every backend exits non-zero before
\* loading or processing any image and writes nothing, whatever the input
\* folder contains, including no images.
C10_BadArgsFailFast ==
    (margc < 4 \/ mop \notin Operations) =>
        /\ mloads = 0
        /\ moutputs = {}
        /\ mjson = {}
        /\ mpc = "exit" => mexit # 0

\* The folder yields no image to process: it is missing, or none of its
\* files decodes.
NoImage == mdir = "missing" \/ \A i \in 1 .. Len(mfolder) : ~mfolder[i].decodes

TimingsWritten == \E j \in mjson : j.file = "timings.json"

\* C11: in each of the four backends a run whose input directory is missing
\* or yields no image to process exits non-zero and writes no timings.json;
\* a run exits 0 only after it processed at least one image and wrote
\* timings.json; so at exit the code is 0 exactly when timings.json exists.
C11_ExitAgreesWithTimings ==
    mprogram # "mpi_files" =>
        /\ NoImage => ~TimingsWritten
        /\ TimingsWritten => mpc = "exit" /\ mexit = 0
        /\ mpc = "exit" =>
              /\ NoImage => mexit # 0
              /\ mexit = 0 => moutputs # {} /\ TimingsWritten

\* The indices of the folder's files that decode.
Good == {k \in 1 .. Len(mfolder) : mfolder[k].decodes}

\* C12: in the sequential, shared-memory and GPU backends, run with valid
\* arguments on a folder with at least one decodable file, the run exits 0,
\* every file of the folder was handed to the loader, exactly the decodable
\* files have an output image and an entry in individual_image_times (in
\* the order they were met), and an undecodable file has neither.
C12_BadFileSkipped ==
    (/\ mprogram \in HostPrograms
     /\ margc >= 4
     /\ mop \in Operations
     /\ mpc = "exit"
     /\ Good # {}) =>
        /\ mexit = 0
        /\ mloads = Len(mfolder)
        /\ moutputs = {OutputName(mfolder[k].stem) : k \in Good}
        /\ \A k \in 1 .. Len(mfolder) :
              ~mfolder[k].decodes => OutputName(mfolder[k].stem) \notin moutputs
        /\ \E j \in mjson :
              LET listed == j.individual_image_times
              IN  /\ Len(listed) = Cardinality(Good)
                  /\ \A i \in 1 .. Len(listed) :
                        \E k \in Good :
                            /\ listed[i].image_name = << mfolder[k].stem, mfolder[k].ext >>
                            /\ Cardinality({g \in Good : g < k}) = i - 1

\* A skipped file lies between a run's start and its exit 0: the folder
\* holds the undecodable file first and a decodable one after it.
C12_Witness ==
    /\ mprogram = "gpu"
    /\ mpc = "exit"
    /\ mexit = 0
    /\ Len(mfolder) = 2
    /\ ~mfolder[1].decodes
    /\ mfolder[2].decodes
    /\ mloads = 2
    /\ Cardinality(moutputs) = 1

\* The first path of the MPI main's list that rank 0 cannot decode (0: none).
FirstBad ==
    LET bad == {k \in 1 .. Len(images) : ~images[k].decodes}
    IN  IF bad = {} THEN 0 ELSE CHOOSE k \in bad : \A b \in bad : k <= b

\* C13: in the distributed backend, run with valid arguments, when rank 0
\* cannot decode an image of the batch the run ends there with a non-zero
\* exit: no later image is loaded or processed, timings.json is not
\* written, and only the images before the failing one have outputs.
C13_LoadFailureAborts ==
    (/\ mprogram = "mpi"
     /\ margc >= 4
     /\ mop \in Operations
     /\ FirstBad # 0) =>
        /\ mloads <= FirstBad
        /\ Len(timings) < FirstBad
        /\ mjson = {}
        /\ moutputs \subseteq {OutputName(images[k].stem) : k \in 1 .. FirstBad - 1}
        /\ mpc = "exit" =>
              /\ mexit # 0
              /\ mloads = FirstBad
              /\ Len(timings) = FirstBad - 1

\* The abort came after an image of the batch was processed.
C13_Witness ==
    /\ mprogram = "mpi"
    /\ mpc = "exit"
    /\ mexit # 0
    /\ FirstBad = 2
    /\ Len(timings) = 1
    /\ moutputs # {}
    /\ mjson = {}

RECURSIVE JsonValue(_)
\* The string a JSON reader takes from text that follows an opening quote:
\* it ends at the first quote not escaped, and \c stands for c.
JsonValue(text) ==
    IF text = << >> \/ Head(text) = "\"" THEN << >>
    ELSE IF Head(text) = "\\"
      THEN IF Len(text) = 1 THEN << >>
           ELSE << text[2] >> \o JsonValue(SubSeq(text, 3, Len(text)))
    ELSE << Head(text) >> \o JsonValue(Tail(text))

RECURSIVE JsonOpen(_)
\* text holds no quote that would close the literal and no backslash that
\* would escape the closing quote appended after it.
JsonOpen(text) ==
    IF text = << >> THEN TRUE
    ELSE IF Head(text) = "\"" THEN FALSE
    ELSE IF Head(text) = "\\"
      THEN Len(text) >= 2 /\ JsonOpen(SubSeq(text, 3, Len(text)))
    ELSE JsonOpen(Tail(text))

\* The characters of the file an entry of individual_image_times names.
NameOf(item) ==
    (CHOOSE e \in Entries : << e.stem, e.ext >> = item.image_name).chars

\* C14: in timings.json of each backend the text written for image_name is
\* the file name with each backslash doubled and each double quote preceded
\* by a backslash, nothing else changed: it is longer than the name by the
\* number of those characters, it reads back as the name, and the literal
\* is closed only by the quote the writer appends.
C14_NameEscaped ==
    \A j \in mjson :
        j.file = "timings.json" =>
            \A i \in 1 .. Len(j.individual_image_times) :
                LET item == j.individual_image_times[i]
                    name == NameOf(item)
                    special == {k \in 1 .. Len(name) : name[k] \in {"\"", "\\"}}
                IN  /\ Len(item.written) = Len(name) + Cardinality(special)
                    /\ JsonOpen(item.written)
                    /\ JsonValue(item.written) = name

\* C15: a run that wrote its timings has one output file per image it
\* processed, named stem, "_", operation, extension of the input file; so
\* the outputs are as many as the images processed.
C15_OneOutputPerImage ==
    \A j \in mjson :
        j.file = "timings.json" =>
            LET listed == j.individual_image_times
            IN  /\ \A i \in 1 .. Len(listed) :
                      << listed[i].image_name[1], "_", mop, listed[i].image_name[2] >>
                          \in moutputs
                /\ Cardinality(moutputs) = Len(listed)

\* C16: the entries of individual_image_times are the folder's images in
\* lexicographic order of path, whatever order the directory hands them
\* out in; so every backend lists the same image at the same place.
C16_SameEnumeration ==
    \A j \in mjson :
        j.file = "timings.json" =>
            LET listed == j.individual_image_times
            IN  /\ {listed[i].image_name : i \in 1 .. Len(listed)} = Decodable
                /\ Len(listed) = Cardinality(Decodable)
                /\ \A a, b \in 1 .. Len(listed) :
                      a < b =>
                          (CHOOSE e \in Entries :
                              << e.stem, e.ext >> = listed[a].image_name).key
                          < (CHOOSE e \in Entries :
                              << e.stem, e.ext >> = listed[b].image_name).key

(***************************************************************************)
(* The image loop of the distributed main.                                 *)
(***************************************************************************)
Variants == {"part_008", "cpu_mpi"}

\* The two MPI_Sendrecv calls of mpi_sobel and mpi_gaussian, each as its
\* send half and its receive half.
HaloStatements(op) ==
    IF op = "grayscale" THEN << >>
    ELSE << "halo_up", "halo_up_wait", "halo_down", "halo_down_wait" >>

\* The statements of one iteration of the image loop, in the order they
\* are written: those of mpi_<operation> and, back in main, the push of the
\* timing and the barrier.
Statements(variant, op) ==
    IF variant = "part_008"
      THEN << "t0", "load", "t1", "t_proc_start", "bcast", "scatter" >>
           \o HaloStatements(op)
           \o << "compute", "gather", "t_proc_stop", "t_export_start", "export",
                 "t_export_stop", "record", "barrier", "barrier_wait" >>
      ELSE << "t0", "load", "bcast", "scatter", "t1" >>
           \o HaloStatements(op)
           \o << "compute", "t2", "gather", "t3", "export", "record",
                 "barrier", "barrier_wait" >>

\* The calls of MPI_Wtime.
Timers == {"t0", "t1", "t2", "t3", "t_proc_start", "t_proc_stop",
           "t_export_start", "t_export_stop"}

\* The two time stamps each reported time is the difference of:
\* timing.load_ms = t1-t0, .process_ms = t_proc_stop-t_proc_start,
\* .export_ms = t_export_stop-t_export_start; in cpu_mpi.cpp
\* {name, (t1-t0)*1000, (t2-t1)*1000, (t3-t2)*1000}.
Windows(variant) ==
    IF variant = "part_008"
      THEN [load |-> << "t0", "t1" >>,
            process |-> << "t_proc_start", "t_proc_stop" >>,
            export |-> << "t_export_start", "t_export_stop" >>]
      ELSE [load |-> << "t0", "t1" >>,
            process |-> << "t1", "t2" >>,
            export |-> << "t2", "t3" >>]

BatchInit ==
    \E v \in Variants, op \in Operations, s \in 1 .. MaxRanks :
        \E n \in 1 .. MaxFiles : \E f \in [1 .. n -> BOOLEAN] :
            /\ bvariant = v
            /\ bop = op
            /\ bsize = s
            /\ bfiles = f
            /\ bimg = [q \in Ranks(s) |-> 1]
            /\ bpc = [q \in Ranks(s) |-> 1]
            /\ bsent = {}
            /\ barrived = [q \in Ranks(s) |-> 0]
            /\ brecorded = {}
            /\ bout = {}

\* The statement a rank is at.
Stmt(rank) ==
    IF bimg[rank] \in DOMAIN bfiles
       /\ bpc[rank] \in DOMAIN Statements(bvariant, bop)
      THEN Statements(bvariant, bop)[bpc[rank]]
      ELSE "none"

Advance(rank) == bpc' = [bpc EXCEPT ![rank] = bpc[rank] + 1]

\* double t = MPI_Wtime();
BTimer(rank) ==
    /\ Stmt(rank) \in Timers
    /\ Advance(rank)
    /\ UNCHANGED << outsideBatch, bvariant, bop, bsize, bfiles, bimg, bsent, barrived,
                    brecorded, bout >>

\* if(rank==0){ full_img = stbi_load(..); if(!full_img){ MPI_Abort(MPI_COMM_WORLD,1); } }
BLoad(rank) ==
    /\ Stmt(rank) = "load"
    /\ IF rank = 0 /\ ~bfiles[bimg[rank]]
         THEN bpc' = [q \in Ranks(bsize) |-> 0]
         ELSE Advance(rank)
    /\ UNCHANGED << outsideBatch, bvariant, bop, bsize, bfiles, bimg, bsent, barrived,
                    brecorded, bout >>

\* MPI_Bcast of width, height, channels and MPI_Scatterv: the root hands the
\* data over, another rank returns once the root's data is there.
BCollective(rank) ==
    /\ Stmt(rank) \in {"bcast", "scatter"}
    /\ IF rank = 0
         THEN bsent' = bsent \cup {[kind |-> Stmt(rank), img |-> bimg[rank],
                                    src |-> 0, dst |-> q] : q \in Ranks(bsize) \ {0}}
         ELSE /\ [kind |-> Stmt(rank), img |-> bimg[rank], src |-> 0, dst |-> rank]
                    \in bsent
              /\ bsent' = bsent \ {[kind |-> Stmt(rank), img |-> bimg[rank],
                                    src |-> 0, dst |-> rank]}
    /\ Advance(rank)
    /\ UNCHANGED << outsideBatch, bvariant, bop, bsize, bfiles, bimg, barrived,
                    brecorded, bout >>

\* The neighbour a statement of the halo exchange talks to.
Partner(rank, stmt) ==
    IF stmt \in {"halo_up", "halo_up_wait"}
      THEN (IF rank = 0 THEN MPI_PROC_NULL ELSE rank - 1)
      ELSE (IF rank = bsize - 1 THEN MPI_PROC_NULL ELSE rank + 1)

\* The send half of an MPI_Sendrecv (tag 0 upward, tag 1 downward).
BSendrecvStart(rank) ==
    /\ Stmt(rank) \in {"halo_up", "halo_down"}
    /\ bsent' = IF Partner(rank, Stmt(rank)) = MPI_PROC_NULL THEN bsent
                ELSE bsent \cup {[kind |-> Stmt(rank), img |-> bimg[rank],
                                  src |-> rank, dst |-> Partner(rank, Stmt(rank))]}
    /\ Advance(rank)
    /\ UNCHANGED << outsideBatch, bvariant, bop, bsize, bfiles, bimg, barrived,
                    brecorded, bout >>

\* The receive half: from above what the neighbour sent downward, from
\* below what it sent upward.
BSendrecvFinish(rank) ==
    /\ Stmt(rank) \in {"halo_up_wait", "halo_down_wait"}
    /\ IF Partner(rank, Stmt(rank)) = MPI_PROC_NULL
         THEN UNCHANGED bsent
         ELSE \E m \in bsent :
                /\ m.kind = (IF Stmt(rank) = "halo_up_wait" THEN "halo_down" ELSE "halo_up")
                /\ m.src = Partner(rank, Stmt(rank))
                /\ m.dst = rank
                /\ bsent' = bsent \ {m}
    /\ Advance(rank)
    /\ UNCHANGED << outsideBatch, bvariant, bop, bsize, bfiles, bimg, barrived,
                    brecorded, bout >>

\* The loops over the rank's rows.
BCompute(rank) ==
    /\ Stmt(rank) = "compute"
    /\ Advance(rank)
    /\ UNCHANGED << outsideBatch, bvariant, bop, bsize, bfiles, bimg, bsent, barrived,
                    brecorded, bout >>

\* MPI_Gatherv: another rank hands its rows over, the root returns once it
\* has the rows of every rank.
BGather(rank) ==
    /\ Stmt(rank) = "gather"
    /\ IF rank # 0
         THEN bsent' = bsent \cup {[kind |-> "gather", img |-> bimg[rank],
                                    src |-> rank, dst |-> 0]}
         ELSE /\ \A q \in Ranks(bsize) \ {0} :
                    [kind |-> "gather", img |-> bimg[rank], src |-> q, dst |-> 0] \in bsent
              /\ bsent' = bsent \ {m \in bsent : m.kind = "gather" /\ m.img = bimg[rank]}
    /\ Advance(rank)
    /\ UNCHANGED << outsideBatch, bvariant, bop, bsize, bfiles, bimg, barrived,
                    brecorded, bout >>

\* if(rank==0){ stbi_write_png(..); }
BExport(rank) ==
    /\ Stmt(rank) = "export"
    /\ bout' = IF rank = 0 THEN bout \cup {bimg[rank]} ELSE bout
    /\ Advance(rank)
    /\ UNCHANGED << outsideBatch, bvariant, bop, bsize, bfiles, bimg, bsent, barrived,
                    brecorded >>

\* if (rank == 0) { timings.push_back(timing); total_load += ..; }
BRecord(rank) ==
    /\ Stmt(rank) = "record"
    /\ brecorded' = IF rank = 0 THEN brecorded \cup {bimg[rank]} ELSE brecorded
    /\ Advance(rank)
    /\ UNCHANGED << outsideBatch, bvariant, bop, bsize, bfiles, bimg, bsent, barrived,
                    bout >>

\* MPI_Barrier(MPI_COMM_WORLD): the rank enters the barrier
BBarrierEnter(rank) ==
    /\ Stmt(rank) = "barrier"
    /\ barrived' = [barrived EXCEPT ![rank] = barrived[rank] + 1]
    /\ Advance(rank)
    /\ UNCHANGED << outsideBatch, bvariant, bop, bsize, bfiles, bimg, bsent, brecorded,
                    bout >>

\* A barrier a rank leaves without waiting for the others.
AllArrived_free(rank) == TRUE

\* Every rank has entered the barrier the rank is in.
AllArrived(rank) == \A q \in Ranks(bsize) : barrived[q] >= barrived[rank]

\* ... and returns from it once every rank has entered; the loop goes on
\* to the next image.
BBarrierLeave(rank) ==
    /\ Stmt(rank) = "barrier_wait"
    /\ AllArrived(rank)
    /\ bimg' = [bimg EXCEPT ![rank] = bimg[rank] + 1]
    /\ bpc' = [bpc EXCEPT ![rank] = 1]
    /\ UNCHANGED << outsideBatch, bvariant, bop, bsize, bfiles, bsent, barrived,
                    brecorded, bout >>

BatchNext ==
    \/ \E rank \in Ranks(bsize) : BTimer(rank)
    \/ \E rank \in Ranks(bsize) : BLoad(rank)
    \/ \E rank \in Ranks(bsize) : BCollective(rank)
    \/ \E rank \in Ranks(bsize) : BSendrecvStart(rank)
    \/ \E rank \in Ranks(bsize) : BSendrecvFinish(rank)
    \/ \E rank \in Ranks(bsize) : BCompute(rank)
    \/ \E rank \in Ranks(bsize) : BGather(rank)
    \/ \E rank \in Ranks(bsize) : BExport(rank)
    \/ \E rank \in Ranks(bsize) : BRecord(rank)
    \/ \E rank \in Ranks(bsize) : BBarrierEnter(rank)
    \/ \E rank \in Ranks(bsize) : BBarrierLeave(rank)

\* The statements of its image a rank has executed.
Taken(rank) ==
    {Statements(bvariant, bop)[i] :
        i \in {j \in DOMAIN Statements(bvariant, bop) : j < bpc[rank]}}

\* The time windows of rank 0 that are open: started and not yet stopped.
OpenWindows ==
    IF bimg[0] \notin DOMAIN bfiles THEN {}
    ELSE {w \in {"load", "process", "export"} :
             /\ Windows(bvariant)[w][1] \in Taken(0)
             /\ Windows(bvariant)[w][2] \notin Taken(0)}

\* Communication and computation of an image.
Work == {"bcast", "scatter", "halo_up", "halo_up_wait", "halo_down", "halo_down_wait",
         "compute", "gather"}

\* C21: in the distributed backend a rank is at image k+1 only when every
\* rank has finished image k through the gather and has entered the barrier,
\* and rank 0 has encoded image k and pushed its timing; no time window of
\* rank 0 for image k is open then, so windows of two images never overlap.
C21_BarrierSeparatesImages ==
    \A r \in Ranks(bsize) : \A k \in DOMAIN bfiles :
        (bimg[r] > k /\ bpc[r] # 0) =>
            /\ k \in bout
            /\ k \in brecorded
            /\ \A m \in bsent : m.img > k
            /\ \A q \in Ranks(bsize) :
                  \/ bimg[q] > k
                  \/ bimg[q] = k /\ Stmt(q) = "barrier_wait"
            /\ bimg[0] = k => OpenWindows = {}

\* A rank has begun the second image while another one is still in the
\* barrier after the first.
C21_Witness ==
    /\ bsize >= 2
    /\ \E r, q \in Ranks(bsize) :
          /\ bimg[r] = 2
          /\ bpc[r] > 1
          /\ bimg[q] = 1
          /\ Stmt(q) = "barrier_wait"

\* One step of the image loop, seen from rank 0's clock: the decode falls
\* in the load window alone, the work of every rank on the image in rank
\* 0's process window alone, the encode in the export window alone.
TimedStep ==
    \A rank \in Ranks(bsize) :
        (bpc'[rank] = bpc[rank] + 1) =>
            /\ (rank = 0 /\ Stmt(0) = "load") => OpenWindows = {"load"}
            /\ Stmt(rank) \in Work =>
                  /\ bimg[0] = bimg[rank]
                  /\ OpenWindows = {"process"}
            /\ (rank = 0 /\ Stmt(0) = "export") => OpenWindows = {"export"}

\* The windows of an image open one at a time, in the order load, process,
\* export.
WindowsInOrder ==
    LET w == Windows(bvariant)
    IN  /\ \A a, b \in {"load", "process", "export"} :
              (a \in OpenWindows /\ b \in OpenWindows) => a = b
        /\ w.process[1] \in Taken(0) => w.load[2] \in Taken(0)
        /\ w.export[1] \in Taken(0) => w.process[2] \in Taken(0)
        /\ w.process[2] \in Taken(0) => "gather" \in Taken(0)
        /\ "bcast" \in Taken(0) => w.process[1] \in Taken(0)

\* C25: for each image of the distributed backend rank 0's load window
\* holds only the decode, its process window opens before the broadcast of
\* the dimensions and closes after the gather (so it holds broadcast,
\* scatter, halo exchange, computation and gather), its export window
\* holds only the encode; the windows do not overlap and come in the order
\* load, process, export.
C25_TimingWindows ==
    /\ [][TimedStep]_vars
    /\ []WindowsInOrder

(***************************************************************************)
(* The accesses of a filter pass.                                          *)
(***************************************************************************)
\* dim3 block(16, 16);
BlockDim == 16

\* Image extents of a GPU pass: one pixel, and one thread short of, equal to
\* and one thread beyond a whole number of blocks.
GpuExtents ==
    {1} \cup UNION {{BlockDim * k - 1, BlockDim * k, BlockDim * k + 1} :
                       k \in 1 .. MaxGridBlocks - 1}

AccessInit ==
    \E b \in Backends, op \in Operations, t \in 1 .. MaxThreads :
        \E w \in (1 .. MaxAccessWidth) \cup GpuExtents,
           h \in (1 .. MaxAccessHeight) \cup {BlockDim + 1} :
            /\ b = "gpu" <=> (w \in GpuExtents /\ h \in {1, BlockDim + 1})
            /\ b # "gpu" => (w <= MaxAccessWidth /\ h <= MaxAccessHeight)
            /\ b # "omp" => t = 1
            /\ abackend = b
            /\ aop = op
            /\ awidth = w
            /\ aheight = h
            /\ athreads = t
            /\ adone = {}
            /\ areads = {}
            /\ awrites = {}

\* size_t output_size = (size_t)w * h * img.channels_out;
\* img.output_host = new unsigned char[output_size];
OutputSize(op, w, h) == w * h * OutputChannels(op)
\* what stbi_load(.., 3) returns: w * h * 3 bytes
InputSize(w, h) == w * h * channels

\* Every pixel writing at its own pixel number, whatever the channel count.
OutIndex_gray(op, w, c_in, x, y, c) == y * w + x + c

\* The output row alone, every row writing the bytes of row 0.
OutIndex_row0(op, w, c_in, x, y, c) ==
    IF op = "gaussian" THEN x * c_in + c ELSE x

\* int idx_out = y * w + x; out[idx_out] = ..        (grayscale, Sobel)
\* int outIdx = (y * w + x) * c_in; out[outIdx + c] = ..   (Gaussian)
OutIndex(op, w, c_in, x, y, c) ==
    IF op = "gaussian" THEN (y * w + x) * c_in + c ELSE y * w + x

\* The bytes of in[] the body of the loops reads for pixel (x, y).
PixelReads(backend, op, w, h, x, y) ==
    IF op = "grayscale"
      THEN {(y * w + x) * channels + c : c \in 0 .. 2}
      ELSE LET half == KernelSize(backend, op) \div 2
           IN  UNION {LET idx == IF backend = "gpu"
                                   THEN DeviceIndex(w, h, channels, x, y, kx, ky)
                                   ELSE SampleIndex(w, h, channels, x, y, kx, ky)
                      IN  {idx, idx + 1, idx + 2}
                      : kx \in -half .. half, ky \in -half .. half}

\* The accesses of the body for pixel (x, y), run by thread by.
ReadsOf(pixels) ==
    {[buf |-> "in", idx |-> i] :
        i \in UNION {PixelReads(abackend, aop, awidth, aheight, p[1], p[2]) : p \in pixels}}
WritesOf(pixels, by) ==
    {[buf |-> "out", idx |-> OutIndex(aop, awidth, channels, p[1], p[2], c),
      x |-> p[1], y |-> p[2], c |-> c, by |-> by] :
        p \in pixels, c \in 0 .. OutputChannels(aop) - 1}

RunPixels(unit, pixels, by) ==
    /\ adone' = adone \cup {unit}
    /\ areads' = areads \cup ReadsOf(pixels)
    /\ awrites' = awrites \cup WritesOf(pixels, by)
    /\ UNCHANGED << outsideAccess, abackend, aop, awidth, aheight, athreads >>

RowPixels(y) == {<< x, y >> : x \in 0 .. awidth - 1}

\* for (int y = 0; y < h; ++y) for (int x = 0; x < w; ++x) { .. }
AccessSeqRow ==
    /\ abackend = "sequential"
    /\ \E y \in 0 .. aheight - 1 :
          /\ adone = 0 .. y - 1
          /\ RunPixels(y, RowPixels(y), 0)

\* #pragma omp parallel for: every iteration y runs once, on some thread
AccessOmpRow ==
    /\ abackend = "omp"
    /\ \E y \in (0 .. aheight - 1) \ adone : \E t \in 0 .. athreads - 1 :
          RunPixels(y, RowPixels(y), t)

\* The grid without the rounding up.
GridDim_floor(extent) == extent \div BlockDim

\* dim3 grid((img.width + block.x - 1) / block.x, (img.height + block.y - 1) / block.y);
GridDim(extent) == (extent + BlockDim - 1) \div BlockDim

\* The threads of block (bx, by): int x = blockIdx.x * blockDim.x + threadIdx.x;
\* int y = blockIdx.y * blockDim.y + threadIdx.y;
BlockThreads(bx, by) ==
    {[block |-> << bx, by >>, thread |-> << tx, ty >>,
      x |-> bx * BlockDim + tx, y |-> by * BlockDim + ty] :
        tx \in 0 .. BlockDim - 1, ty \in 0 .. BlockDim - 1}

\* if (x >= width || y >= height) return;
Returns(t) == t.x >= awidth \/ t.y >= aheight

\* kernel<<<grid, block>>>: the threads of one block; blocks run in any order
AccessGpuBlock ==
    /\ abackend = "gpu"
    /\ \E bx \in 0 .. GridDim(awidth) - 1, by \in 0 .. GridDim(aheight) - 1 :
          /\ << bx, by >> \notin adone
          /\ adone' = adone \cup {<< bx, by >>}
          /\ areads' = areads \cup
                 ReadsOf({<< t.x, t.y >> : t \in {u \in BlockThreads(bx, by) : ~Returns(u)}})
          /\ awrites' = awrites \cup
                 UNION {WritesOf({<< t.x, t.y >>}, << t.block, t.thread >>) :
                           t \in {u \in BlockThreads(bx, by) : ~Returns(u)}}
          /\ UNCHANGED << outsideAccess, abackend, aop, awidth, aheight, athreads >>

AccessNext == AccessSeqRow \/ AccessOmpRow \/ AccessGpuBlock

\* The pass is over.
PassDone ==
    IF abackend = "gpu"
      THEN adone = (0 .. GridDim(awidth) - 1) \X (0 .. GridDim(aheight) - 1)
      ELSE adone = 0 .. aheight - 1

\* Every access stays inside its buffer: reads in the input, writes in
\* the output.
InsideBuffers ==
    /\ \A r \in areads :
          r.buf = "in" /\ r.idx \in 0 .. InputSize(awidth, aheight) - 1
    /\ \A a \in awrites :
          a.buf = "out" /\ a.idx \in 0 .. OutputSize(aop, awidth, aheight) - 1

\* C24: the output buffer of an image has width * height * output_channels
\* bytes (1 channel for grayscale and Sobel, 3 for Gaussian); the filter
\* pass writes each of its indices exactly once, none outside it, and
\* never writes the input buffer.
C24_OutputWrittenOnce ==
    /\ OutputSize(aop, awidth, aheight)
          = awidth * aheight * (IF aop = "gaussian" THEN 3 ELSE 1)
    /\ InsideBuffers
    /\ Cardinality({a.idx : a \in awrites}) = Cardinality(awrites)
    /\ PassDone => {a.idx : a \in awrites} = 0 .. OutputSize(aop, awidth, aheight) - 1

\* A sequential Gaussian pass over an image of several rows and columns is
\* over.
C24_Witness ==
    /\ abackend = "sequential"
    /\ aop = "gaussian"
    /\ awidth >= 2
    /\ aheight >= 2
    /\ PassDone
    /\ Cardinality(awrites) = awidth * aheight * 3

\* The writes of the sequential loop over the whole image, without the
\* thread.
Unthreaded(ws) == {[idx |-> a.idx, x |-> a.x, y |-> a.y, c |-> a.c] : a \in ws}
AllPixels == (0 .. awidth - 1) \X (0 .. aheight - 1)

\* C22: in the filter pass of the shared-memory backend, for every image,
\* thread count and schedule, each output row is written by exactly one
\* thread, no two threads write the same output byte, no thread reads the
\* output buffer or writes the input buffer, and every output byte is the
\* one the sequential loop computes: written for the same pixel and
\* channel from the same, unchanged input bytes.
C22_ThreadsWriteOwnRows ==
    abackend = "omp" =>
        /\ \A y \in 0 .. aheight - 1 :
              Cardinality({a.by : a \in {b \in awrites : b.idx \div (awidth * OutputChannels(aop)) = y}})
                 = (IF y \in adone THEN 1 ELSE 0)
        /\ \A a, b \in awrites : a.idx = b.idx => a.by = b.by
        /\ InsideBuffers
        /\ PassDone =>
              /\ Unthreaded(awrites) = Unthreaded(WritesOf(AllPixels, 0))
              /\ areads = ReadsOf(AllPixels)
              /\ {a.idx : a \in awrites} = 0 .. OutputSize(aop, awidth, aheight) - 1

\* Two threads have shared the rows of a Sobel pass.
C22_Witness ==
    /\ abackend = "omp"
    /\ aop = "sobel"
    /\ athreads = 2
    /\ aheight >= 2
    /\ PassDone
    /\ {a.by : a \in awrites} = {0, 1}

\* C27: in the GPU backend, for every width and height, the grid of 16x16
\* blocks covers the image: every pixel is handled by exactly one thread,
\* a thread writes only its own output pixel and reads only input bytes,
\* and a thread with x >= width or y >= height writes nothing.
C27_GridCoversImage ==
    abackend = "gpu" =>
        /\ \A a \in awrites :
              /\ a.by[1][1] * BlockDim + a.by[2][1] = a.x
              /\ a.by[1][2] * BlockDim + a.by[2][2] = a.y
              /\ a.x < awidth
              /\ a.y < aheight
              /\ a.idx = (a.y * awidth + a.x) * OutputChannels(aop) + a.c
        /\ \A a, b \in awrites : (a.x = b.x /\ a.y = b.y) => a.by = b.by
        /\ InsideBuffers
        /\ PassDone => {<< a.x, a.y >> : a \in awrites} = AllPixels

\* A pass over an image one pixel wider and higher than a block is over:
\* four blocks have run, three of them with threads outside the image.
C27_Witness ==
    /\ abackend = "gpu"
    /\ awidth = BlockDim + 1
    /\ aheight = BlockDim + 1
    /\ PassDone
    /\ Cardinality(adone) = 4

\* The accesses at rest.
AccessIdle ==
    /\ abackend = "sequential"
    /\ aop = "grayscale"
    /\ awidth = 0
    /\ aheight = 0
    /\ athreads = 1
    /\ adone = {}
    /\ areads = {}
    /\ awrites = {}

(***************************************************************************)
(* The batch programs with export threads: main of cpu_single.cpp (the     *)
(* OpenMP build) and of gpu.cu.  Both load every file of the folder, run   *)
(* the filter on every loaded image, start one export thread per image,    *)
(* join them, sum the totals and write timings.json.  The GPU program      *)
(* also uploads the weights and allocates the two device buffers between   *)
(* the load loop and the processing loop.                                  *)
(***************************************************************************)
ExportPrograms == {"omp", "gpu"}

Symbols == {"GAUSSIAN_KERNEL", "SOBEL_X", "SOBEL_Y"}

\* The constant-memory symbols main uploads for an operation.
Uploaded(op) ==
    IF op = "gaussian" THEN {"GAUSSIAN_KERNEL"}
    ELSE IF op = "sobel" THEN {"SOBEL_X", "SOBEL_Y"}
    ELSE {}

Slots == 1 .. MaxFiles

ExportInit ==
    /\ sprog \in ExportPrograms
    /\ sop \in Operations
    /\ \E n \in 1 .. MaxFiles : sdir \in [1 .. n -> 0 .. MaxSaveSide]
    /\ simages = << >>
    /\ spc = "load"
    /\ sidx = 1
    /\ smax = [in |-> 0, out |-> 0]
    /\ sdev = [in |-> 0, out |-> 0, allocs |-> 0]
    /\ sconst = [s \in Symbols |-> 0]
    /\ slog = {}
    /\ tpc = [i \in Slots |-> "unborn"]
    /\ sbuf = [i \in Slots |-> [in |-> "none", out |-> "none"]]
    /\ sacc = {}
    /\ ssnap = [totals |-> << >>, json |-> << >>]

\* std::max of the running maximum and the size of the image just loaded.
MaxBytes_last(cur, bytes) == bytes

MaxBytes(cur, bytes) == Max(cur, bytes)

\* One pass of the load loop: a file stbi_load refuses is skipped, any other
\* is pushed on images with a fresh output buffer, and the two maxima grow.
SLoad ==
    /\ spc = "load"
    /\ sidx <= Len(sdir)
    /\ IF sdir[sidx] = 0
       THEN UNCHANGED << simages, smax, sbuf >>
       ELSE /\ simages' = Append(simages, sdir[sidx])
            /\ smax' = [in |-> MaxBytes(smax.in,
                                        InputSize(sdir[sidx], sdir[sidx])),
                        out |-> MaxBytes(smax.out,
                                  OutputSize(sop, sdir[sidx], sdir[sidx]))]
            /\ sbuf' = [sbuf EXCEPT ![Len(simages) + 1] =
                                        [in |-> "live", out |-> "live"]]
    /\ sidx' = sidx + 1
    /\ UNCHANGED << sprog, sop, sdir, spc, sdev, sconst, slog, tpc, sacc,
                    ssnap >>
    /\ UNCHANGED outsideExport

\* The end of the load loop: no image means exit code 1.
SLoadEnd ==
    /\ spc = "load"
    /\ sidx > Len(sdir)
    /\ spc' = IF simages = << >> THEN "exit1"
              ELSE IF sprog = "gpu" THEN "upload" ELSE "process"
    /\ sidx' = 1
    /\ UNCHANGED << sprog, sop, sdir, simages, smax, sdev, sconst, slog, tpc,
                    sbuf, sacc, ssnap >>
    /\ UNCHANGED outsideExport

\* cudaMemcpyToSymbol of the weights the operation needs.
SUpload ==
    /\ spc = "upload"
    /\ sconst' = [s \in Symbols |->
                    IF s \in Uploaded(sop) THEN sconst[s] + 1 ELSE sconst[s]]
    /\ spc' = "malloc"
    /\ UNCHANGED << sprog, sop, sdir, simages, sidx, smax, sdev, slog, tpc,
                    sbuf, sacc, ssnap >>
    /\ UNCHANGED outsideExport

\* cudaMalloc of d_input and d_output.
SMalloc ==
    /\ spc = "malloc"
    /\ sdev' = [in |-> smax.in, out |-> smax.out, allocs |-> sdev.allocs + 1]
    /\ spc' = "process"
    /\ UNCHANGED << sprog, sop, sdir, simages, sidx, smax, sconst, slog, tpc,
                    sbuf, sacc, ssnap >>
    /\ UNCHANGED outsideExport

\* One pass of the processing loop.  The GPU program copies the image in,
\* launches the kernel and copies the result out; the OpenMP program calls
\* the filter on the host buffers.
SProcess ==
    /\ spc = "process"
    /\ slog' = slog \cup
         {[image |-> sidx,
           copyin |-> IF sprog = "gpu"
                      THEN InputSize(simages[sidx], simages[sidx]) ELSE 0,
           copyout |-> IF sprog = "gpu"
                       THEN OutputSize(sop, simages[sidx], simages[sidx])
                       ELSE 0,
           dev |-> sdev,
           const |-> sconst,
           buf |-> sbuf[sidx]]}
    /\ IF sidx = Len(simages)
       THEN spc' = "spawn" /\ sidx' = 1
       ELSE spc' = spc /\ sidx' = sidx + 1
    /\ UNCHANGED << sprog, sop, sdir, simages, smax, sdev, sconst, tpc, sbuf,
                    sacc, ssnap >>
    /\ UNCHANGED outsideExport

\* save_threads.emplace_back: the thread of image sidx starts.
SSpawn ==
    /\ spc = "spawn"
    /\ tpc' = [tpc EXCEPT ![sidx] = "encode"]
    /\ IF sidx = Len(simages)
       THEN spc' = "join" /\ sidx' = 1
       ELSE spc' = spc /\ sidx' = sidx + 1
    /\ UNCHANGED << sprog, sop, sdir, simages, smax, sdev, sconst, slog, sbuf,
                    sacc, ssnap >>
    /\ UNCHANGED outsideExport

\* The image the closure of thread t holds a reference to.
Captured(t) == t

\* stbi_write_png reads output_host of the captured image.
TEncode(t) ==
    /\ tpc[t] = "encode"
    /\ sacc' = sacc \cup {[thread |-> t, image |-> Captured(t),
                           what |-> "read_out",
                           state |-> sbuf[Captured(t)].out]}
    /\ tpc' = [tpc EXCEPT ![t] = "stamp"]
    /\ UNCHANGED << sprog, sop, sdir, simages, spc, sidx, smax, sdev, sconst,
                    slog, sbuf, ssnap >>
    /\ UNCHANGED outsideExport

\* img.time_save_ms = ...
TStamp(t) ==
    /\ tpc[t] = "stamp"
    /\ sacc' = sacc \cup {[thread |-> t, image |-> Captured(t),
                           what |-> "write_time", state |-> "live"]}
    /\ tpc' = [tpc EXCEPT ![t] = "free_in"]
    /\ UNCHANGED << sprog, sop, sdir, simages, spc, sidx, smax, sdev, sconst,
                    slog, sbuf, ssnap >>
    /\ UNCHANGED outsideExport

\* stbi_image_free(img.input_host)
TFreeIn(t) ==
    /\ tpc[t] = "free_in"
    /\ sacc' = sacc \cup {[thread |-> t, image |-> Captured(t),
                           what |-> "free_in",
                           state |-> sbuf[Captured(t)].in]}
    /\ sbuf' = [sbuf EXCEPT ![Captured(t)].in = "freed"]
    /\ tpc' = [tpc EXCEPT ![t] = "free_out"]
    /\ UNCHANGED << sprog, sop, sdir, simages, spc, sidx, smax, sdev, sconst,
                    slog, ssnap >>
    /\ UNCHANGED outsideExport

\* delete[] img.output_host, then both pointers are set to nullptr and the
\* thread function returns.
TFreeOut(t) ==
    /\ tpc[t] = "free_out"
    /\ sacc' = sacc \cup {[thread |-> t, image |-> Captured(t),
                           what |-> "free_out",
                           state |-> sbuf[Captured(t)].out]}
    /\ sbuf' = [sbuf EXCEPT ![Captured(t)].out = "freed"]
    /\ tpc' = [tpc EXCEPT ![t] = "done"]
    /\ UNCHANGED << sprog, sop, sdir, simages, spc, sidx, smax, sdev, sconst,
                    slog, ssnap >>
    /\ UNCHANGED outsideExport

\* t.join() returns once the thread function has returned.
Joinable_any(t) == TRUE

Joinable(t) == tpc[t] = "done"

SJoin ==
    /\ spc = "join"
    /\ Joinable(sidx)
    /\ IF sidx = Len(simages)
       THEN spc' = "totals" /\ sidx' = 1
       ELSE spc' = spc /\ sidx' = sidx + 1
    /\ UNCHANGED << sprog, sop, sdir, simages, smax, sdev, sconst, slog, tpc,
                    sbuf, sacc, ssnap >>
    /\ UNCHANGED outsideExport

\* The loop summing time_load_ms, the processing time and time_save_ms of
\* every image: what it reads is the export times written so far.
Stamped == {a.image : a \in {b \in sacc : b.what = "write_time"}}

STotals ==
    /\ spc = "totals"
    /\ ssnap' = [ssnap EXCEPT !.totals = << tpc, Stamped >>]
    /\ spc' = "json"
    /\ UNCHANGED << sprog, sop, sdir, simages, sidx, smax, sdev, sconst, slog,
                    tpc, sbuf, sacc >>
    /\ UNCHANGED outsideExport

\* The timings are printed and written to timings.json; the GPU program
\* then frees the device buffers; main returns 0.
SJson ==
    /\ spc = "json"
    /\ ssnap' = [ssnap EXCEPT !.json = << tpc, Stamped >>]
    /\ spc' = "exit0"
    /\ UNCHANGED << sprog, sop, sdir, simages, sidx, smax, sdev, sconst, slog,
                    tpc, sbuf, sacc >>
    /\ UNCHANGED outsideExport

ExportNext ==
    \/ SLoad
    \/ SLoadEnd
    \/ SUpload
    \/ SMalloc
    \/ SProcess
    \/ SSpawn
    \/ \E t \in Slots : TEncode(t)
    \/ \E t \in Slots : TStamp(t)
    \/ \E t \in Slots : TFreeIn(t)
    \/ \E t \in Slots : TFreeOut(t)
    \/ SJoin
    \/ STotals
    \/ SJson

\* The export threads that have been started.
Started == {t \in Slots : tpc[t] # "unborn"}

\* What main saw of the threads at a snapshot: every thread of every image
\* has returned and every export time is written.
AllExported(snap) ==
    /\ \A i \in 1 .. Len(simages) : snap[1][i] = "done"
    /\ snap[2] = 1 .. Len(simages)

Largest(f(_)) ==
    CHOOSE m \in {f(simages[i]) : i \in 1 .. Len(simages)} :
        \A i \in 1 .. Len(simages) : f(simages[i]) <= m

InBytes(side) == InputSize(side, side)

OutBytes(side) == OutputSize(sop, side, side)

\* C26: the GPU program allocates the device input and output buffers
\* exactly once, before the image loop, at the largest input and output
\* size over the loaded images; every copy to the device fits the input
\* allocation and every copy from the device fits the output allocation;
\* the weights are uploaded to constant memory once, before the first
\* launch, and are not written again.
C26_DeviceBuffersSized ==
    sprog = "gpu" =>
        /\ spc \in {"load", "upload", "malloc", "exit1"} =>
               sdev.allocs = 0 /\ slog = {}
        /\ spc \in {"process", "spawn", "join", "totals", "json", "exit0"} =>
               /\ sdev = [in |-> Largest(InBytes), out |-> Largest(OutBytes),
                          allocs |-> 1]
               /\ sconst = [s \in Symbols |->
                              IF s \in Uploaded(sop) THEN 1 ELSE 0]
        /\ \A e \in slog :
               /\ e.dev = sdev
               /\ e.const = sconst
               /\ e.copyin = InBytes(simages[e.image])
               /\ e.copyout = OutBytes(simages[e.image])
               /\ e.copyin <= e.dev.in
               /\ e.copyout <= e.dev.out

\* The GPU program processed a larger image before a smaller one and
\* finished.
C26_Witness ==
    /\ sprog = "gpu"
    /\ spc = "exit0"
    /\ Len(simages) >= 2
    /\ simages[1] > simages[2]
    /\ sop = "gaussian"
    /\ \A i \in 1 .. Len(simages) : \E e \in slog : e.image = i

ExportIdle ==
    /\ sprog = "omp"
    /\ sop = "grayscale"
    /\ sdir = << >>
    /\ simages = << >>
    /\ spc = "idle"
    /\ sidx = 1
    /\ smax = [in |-> 0, out |-> 0]
    /\ sdev = [in |-> 0, out |-> 0, allocs |-> 0]
    /\ sconst = [s \in Symbols |-> 0]
    /\ slog = {}
    /\ tpc = [i \in Slots |-> "unborn"]
    /\ sbuf = [i \in Slots |-> [in |-> "none", out |-> "none"]]
    /\ sacc = {}
    /\ ssnap = [totals |-> << >>, json |-> << >>]

(***************************************************************************)
(* The Gaussian weight tables.                                             *)
(***************************************************************************)
\* The table the Gaussian filter of a backend reads its weights from.
WeightTable(backend) ==
    CASE backend = "sequential" -> GAUSSIAN_27x27
      [] backend = "omp" -> GAUSSIAN_27x27_OMP
      [] backend = "gpu" -> GAUSSIAN_KERNEL
      [] backend = "mpi" -> GAUSSIAN_9x9

\* The kernel size the Gaussian filter of a backend loops over.
LoopSize(backend) ==
    IF backend = "mpi" THEN KERNEL_SIZE_GAUSSIAN
    ELSE KernelSize(backend, "gaussian")

\* The weights of the table the loops over ky and kx reach, row-major.
LoopedWeights(backend) ==
    [i \in 0 .. LoopSize(backend) * LoopSize(backend) - 1 |->
        WeightTable(backend)[i]]

\* The table holds a weight for every cell of the square the filter loops
\* over, the side of the square is odd, and the weights sum to 1.0 to four
\* decimals.
TableNormalised(backend) ==
    LET k == LoopSize(backend)
        sum == SumTo(LoopedWeights(backend), k * k)
    IN  /\ k % 2 = 1
        /\ 0 .. k * k - 1 \subseteq DOMAIN WeightTable(backend)
        /\ \A i \in 0 .. k * k - 1 : WeightTable(backend)[i] > 0
        /\ Abs(sum - Limb * Limb) <= Limb

\* C28: in every backend the Gaussian weight table is a square row-major
\* matrix whose odd side is the kernel size the filter loops over, with a
\* weight defined for each of its kernel_size * kernel_size cells, and the
\* weights sum to 1.0 within tolerance.
C28_WeightTables ==
    /\ TableNormalised("mpi")
    /\ hop = "gaussian" => TableNormalised(hbackend)

(***************************************************************************)
(* The orchestrator: POST /api/jobs/submit, updateStatus, runExecutable    *)
(* and runFullBenchmarkSequentially of index.js.                           *)
(***************************************************************************)
Jobs == 1 .. MaxJobs

\* The steps of runFullBenchmarkSequentially, in order.
Engines == << "cuda", "openmp", "mpi" >>

\* The binary each step names in its call of runExecutable.
ExeName(engine) ==
    CASE engine = "cuda" -> "GPU"
      [] engine = "openmp" -> "OMP"
      [] engine = "mpi" -> "GPU"

NoStatus == [status |-> "none", cuda |-> "none", openmp |-> "none",
             mpi |-> "none", error |-> "none"]

Fields == DOMAIN NoStatus

\* { ...status, ...updates } of updateStatus.
Merge(status, updates) ==
    [f \in Fields |-> IF f \in DOMAIN updates THEN updates[f] ELSE status[f]]

\* The position of an engine in the order of the steps.
StepOf(engine) == CHOOSE k \in DOMAIN Engines : Engines[k] = engine

JobInit ==
    /\ jstatus = [j \in Jobs |-> NoStatus]
    /\ jfilter = [j \in Jobs |-> ""]
    /\ jpc = [j \in Jobs |-> "request"]
    /\ jstep = [j \in Jobs |-> ""]
    /\ jrunning = [j \in Jobs |-> {}]
    /\ jcalls = [j \in Jobs |-> << >>]
    /\ jexits = [j \in Jobs |-> << >>]
    /\ jreplies = [j \in Jobs |-> 0]

\* POST /api/jobs/submit without files or without filter_type: 400.
SubmitRejected(j) ==
    /\ jpc[j] = "request"
    /\ jpc' = [jpc EXCEPT ![j] = "rejected"]
    /\ jreplies' = [jreplies EXCEPT ![j] = 400]
    /\ UNCHANGED << jstatus, jfilter, jstep, jrunning, jcalls, jexits >>
    /\ UNCHANGED outsideJob

\* POST /api/jobs/submit: the directories are made, the files moved, the
\* initial status.json written, the background task started, 202 sent.
Submit(j) ==
    /\ jpc[j] = "request"
    /\ \E filter_type \in Operations :
          jfilter' = [jfilter EXCEPT ![j] = filter_type]
    /\ jstatus' = [jstatus EXCEPT ![j] =
                      [status |-> "pending", cuda |-> "pending",
                       openmp |-> "pending", mpi |-> "pending",
                       error |-> "none"]]
    /\ jstep' = [jstep EXCEPT ![j] = Engines[1]]
    /\ jpc' = [jpc EXCEPT ![j] = "mark"]
    /\ jreplies' = [jreplies EXCEPT ![j] = 202]
    /\ UNCHANGED << jrunning, jcalls, jexits >>
    /\ UNCHANGED outsideJob

\* await updateStatus(jobId, { status: 'processing_<step>',
\*                             <step>: 'processing' })
MarkProcessing(j) ==
    /\ jpc[j] = "mark"
    /\ jstatus' = [jstatus EXCEPT ![j] =
                      Merge(@, ("status" :> "processing_" \o jstep[j]) @@
                               (jstep[j] :> "processing"))]
    /\ jpc' = [jpc EXCEPT ![j] = "run"]
    /\ UNCHANGED << jfilter, jstep, jrunning, jcalls, jexits, jreplies >>
    /\ UNCHANGED outsideJob

\* runExecutable: execFile(path.join(binDir, exeName),
\*                         [inputDir, outputDir, filterType])
RunExecutable(j) ==
    /\ jpc[j] = "run"
    /\ jcalls' = [jcalls EXCEPT ![j] =
                     Append(@, [exe |-> ExeName(jstep[j]),
                                inputDir |-> << j, "input" >>,
                                outputDir |-> << j, jstep[j] >>,
                                filterType |-> jfilter[j],
                                running |-> jrunning[j],
                                exits |-> jexits[j],
                                status |-> jstatus[j]])]
    /\ jrunning' = [jrunning EXCEPT ![j] = @ \cup {jstep[j]}]
    /\ jpc' = [jpc EXCEPT ![j] = "wait"]
    /\ UNCHANGED << jstatus, jfilter, jstep, jexits, jreplies >>
    /\ UNCHANGED outsideJob

\* The callback of execFile: the promise resolves when the process exited
\* with code 0 and rejects otherwise.
ProcessExit(j) ==
    /\ jpc[j] = "wait"
    /\ \E ok \in BOOLEAN :
          /\ jexits' = [jexits EXCEPT ![j] = Append(@, ok)]
          /\ jpc' = [jpc EXCEPT ![j] = IF ok THEN "done" ELSE "catch"]
    /\ jrunning' = [jrunning EXCEPT ![j] = @ \ {jstep[j]}]
    /\ UNCHANGED << jstatus, jfilter, jstep, jcalls, jreplies >>
    /\ UNCHANGED outsideJob

\* await updateStatus(jobId, { <step>: 'completed' }), then currentStep
\* becomes the next step.
MarkCompleted(j) ==
    /\ jpc[j] = "done"
    /\ jstatus' = [jstatus EXCEPT ![j] =
                      Merge(@, jstep[j] :> "completed")]
    /\ IF StepOf(jstep[j]) < Len(Engines)
       THEN /\ jstep' = [jstep EXCEPT ![j] = Engines[StepOf(@) + 1]]
            /\ jpc' = [jpc EXCEPT ![j] = "mark"]
       ELSE /\ jstep' = jstep
            /\ jpc' = [jpc EXCEPT ![j] = "finish"]
    /\ UNCHANGED << jfilter, jrunning, jcalls, jexits, jreplies >>
    /\ UNCHANGED outsideJob

\* await updateStatus(jobId, { status: 'completed' })
Finish(j) ==
    /\ jpc[j] = "finish"
    /\ jstatus' = [jstatus EXCEPT ![j] = Merge(@, "status" :> "completed")]
    /\ jpc' = [jpc EXCEPT ![j] = "end"]
    /\ UNCHANGED << jfilter, jstep, jrunning, jcalls, jexits, jreplies >>
    /\ UNCHANGED outsideJob

\* The updates of the catch block.
CatchUpdates_job(step) == ("status" :> "failed") @@ ("error" :> "message")

CatchUpdates(step) ==
    ("status" :> "failed") @@ (step :> "failed") @@ ("error" :> "message")

\* catch (error): await updateStatus(jobId, { status: 'failed',
\*                             [currentStep]: 'failed', error: ... })
Catch(j) ==
    /\ jpc[j] = "catch"
    /\ jstatus' = [jstatus EXCEPT ![j] = Merge(@, CatchUpdates(jstep[j]))]
    /\ jpc' = [jpc EXCEPT ![j] = "end"]
    /\ UNCHANGED << jfilter, jstep, jrunning, jcalls, jexits, jreplies >>
    /\ UNCHANGED outsideJob

JobNext ==
    \/ \E j \in Jobs : SubmitRejected(j)
    \/ \E j \in Jobs : Submit(j)
    \/ \E j \in Jobs : MarkProcessing(j)
    \/ \E j \in Jobs : RunExecutable(j)
    \/ \E j \in Jobs : ProcessExit(j)
    \/ \E j \in Jobs : MarkCompleted(j)
    \/ \E j \in Jobs : Finish(j)
    \/ \E j \in Jobs : Catch(j)

\* The jobs whose status.json exists.
Submitted == {j \in Jobs : jstatus[j] # NoStatus}

\* The calls made for job j follow the order of the steps, each with the
\* job's input directory, the output directory of its step and the filter
\* name, each started with no process of the job running and after all
\* earlier processes exited with success, and no binary is run twice.
CallsInOrder(j) ==
    /\ Len(jcalls[j]) <= Len(Engines)
    /\ Cardinality(jrunning[j]) <= 1
    /\ \A k \in 1 .. Len(jcalls[j]) :
         /\ jcalls[j][k].inputDir = << j, "input" >>
         /\ jcalls[j][k].outputDir = << j, Engines[k] >>
         /\ jcalls[j][k].filterType = jfilter[j]
         /\ jcalls[j][k].running = {}
         /\ jcalls[j][k].exits = [i \in 1 .. k - 1 |-> TRUE]
         /\ \A l \in 1 .. Len(jcalls[j]) :
              l # k => jcalls[j][l].exe # jcalls[j][k].exe

\* C29: for each job the engines run strictly one after another, CUDA, then
\* OpenMP, then MPI; an engine is started only after the previous one exited
\* successfully; at most one engine process of the job runs at a time; each
\* engine's own executable is invoked exactly once, with the job's input
\* directory, the engine's output directory and the filter name.
C29_EnginesInOrder == \A j \in Jobs : CallsInOrder(j)

\* The step whose process failed, 0 if none did.
FailedStep(j) ==
    IF \E k \in 1 .. Len(jexits[j]) : ~jexits[j][k]
    THEN CHOOSE k \in 1 .. Len(jexits[j]) : ~jexits[j][k]
    ELSE 0

StatusConsistent(j) ==
    LET s == jstatus[j]
        k == FailedStep(j)
    IN  /\ s.status = "completed" =>
              \A l \in DOMAIN Engines : s[Engines[l]] = "completed"
        /\ k # 0 => Len(jcalls[j]) = k /\ jrunning[j] = {}
        /\ (k # 0 /\ jpc[j] = "end") =>
              /\ s.status = "failed"
              /\ s[Engines[k]] = "failed"
              /\ \A l \in k + 1 .. Len(Engines) : s[Engines[l]] = "pending"
        /\ s.status = "failed" => k # 0
        /\ \A l \in DOMAIN Engines :
              s[Engines[l]] = "failed" => (l = k /\ s.status = "failed")
        /\ \A e, l \in DOMAIN Engines :
              (e < l /\ s[Engines[l]] \in {"processing", "completed"}) =>
                  s[Engines[e]] \notin {"pending", "processing"}

\* A status.json whose job status is completed or failed is not written
\* again.
TerminalKept ==
    \A j \in Jobs :
        jstatus[j].status \in {"completed", "failed"} =>
            jstatus'[j] = jstatus[j]

\* C30: in status.json the job is completed only if cuda, openmp and mpi
\* are all completed; when an engine fails it is marked failed, the job
\* becomes failed, every later engine stays pending and is never started;
\* completed and failed are terminal; no engine is processing or completed
\* while an earlier engine is pending or processing.
C30_StatusFile ==
    /\ [](\A j \in Submitted : StatusConsistent(j))
    /\ [][TerminalKept]_vars

\* One job failed at its second engine and another completed.
C30_Witness ==
    \E j, i \in Jobs :
        /\ jpc[j] = "end"
        /\ FailedStep(j) = 2
        /\ jstatus[j].openmp = "failed"
        /\ jstatus[j].mpi = "pending"
        /\ jpc[i] = "end"
        /\ jstatus[i].status = "completed"

JobIdle ==
    /\ jstatus = [j \in Jobs |-> NoStatus]
    /\ jfilter = [j \in Jobs |-> ""]
    /\ jpc = [j \in Jobs |-> "idle"]
    /\ jstep = [j \in Jobs |-> ""]
    /\ jrunning = [j \in Jobs |-> {}]
    /\ jcalls = [j \in Jobs |-> << >>]
    /\ jexits = [j \in Jobs |-> << >>]
    /\ jreplies = [j \in Jobs |-> 0]

(***************************************************************************)
(* Specifications.  Each one runs its own part of the state; the other     *)
(* parts are idle.                                                         *)
(***************************************************************************)
LayoutIdle == layout = LayoutStart(0, 1, 1)

HostIdle ==
    /\ hbackend = "sequential"
    /\ hop = "grayscale"
    /\ himg = BadFile
    /\ hin = Empty
    /\ hrows = {}
    /\ hout = [i \in {} |-> 0]
    /\ hsamples = {}

MainIdle ==
    /\ mprogram = "sequential"
    /\ margc = 1
    /\ mop = "grayscale"
    /\ mfolder = << >>
    /\ mdir = "present"
    /\ mranks = 1
    /\ mpc = "idle"
    /\ mnext = 1
    /\ mdone = {}
    /\ images = << >>
    /\ timings = << >>
    /\ total = [q \in Ranks(1) |-> ZeroTotal]
    /\ mloads = 0
    /\ moutputs = {}
    /\ mjson = {}
    /\ mexit = Running

\* The image loop at rest.
BatchIdle ==
    /\ bvariant = "part_008"
    /\ bop = "grayscale"
    /\ bsize = 1
    /\ bfiles = << >>
    /\ bimg = [q \in Ranks(1) |-> 1]
    /\ bpc = [q \in Ranks(1) |-> 1]
    /\ bsent = {}
    /\ barrived = [q \in Ranks(1) |-> 0]
    /\ brecorded = {}
    /\ bout = {}

Init == DistInit /\ LayoutIdle /\ HostIdle /\ MainIdle /\ BatchIdle
    /\ AccessIdle /\ ExportIdle /\ JobIdle
Spec == Init /\ [][Next]_vars

DistIdle ==
    /\ operation = "grayscale"
    /\ size = 1
    /\ file = BadFile
    /\ garbage = 0
    /\ pc = [q \in Ranks(1) |-> "idle"]
    /\ full_img = Empty
    /\ width = [q \in Ranks(1) |-> 0]
    /\ height = [q \in Ranks(1) |-> 0]
    /\ bcast = {}
    /\ scat = {}
    /\ local_rgb = [q \in Ranks(1) |-> Empty]
    /\ top = [q \in Ranks(1) |-> Empty]
    /\ bottom = [q \in Ranks(1) |-> Empty]
    /\ net = {}
    /\ local_out = [q \in Ranks(1) |-> Empty]
    /\ gath = [q \in Ranks(1) |-> [posted |-> FALSE, data |-> Empty]]
    /\ full_out = Empty
    /\ outfile = {}

\* The distributed pass on the images whose pixels differ from their
\* neighbours, with weak fairness on the steps up to the end of the halo
\* exchange: a rank that can take such a step takes it (every rank is a
\* running process; mpirun starts them all).
InitLive == Init /\ garbage = 0 /\ (file.decodes => file.pattern.kind = "cycle")

\* The steps of a rank up to the end of its halo exchange.
ToExchange ==
    \/ Load
    \/ BcastRoot
    \/ ScatterRoot
    \/ \E rank \in Ranks(size) :
          \/ BcastRecv(rank)
          \/ ScatterRecv(rank)
          \/ SendrecvUpStart(rank)
          \/ SendrecvUpFinish(rank)
          \/ SendrecvDownStart(rank)
          \/ SendrecvDownFinish(rank)

SpecLive == InitLive /\ [][Next]_vars /\ WF_vars(ToExchange)

LayoutLoop == LayoutIter /\ UNCHANGED outsidePartition
InitPartition == PartInit /\ HostIdle /\ DistIdle /\ MainIdle /\ BatchIdle
    /\ AccessIdle /\ ExportIdle /\ JobIdle

InitHost == HostInit /\ LayoutIdle /\ DistIdle /\ MainIdle /\ BatchIdle
    /\ AccessIdle /\ ExportIdle /\ JobIdle
SpecHost == InitHost /\ [][HostNext]_vars

InitMain == MainInit /\ LayoutIdle /\ HostIdle /\ DistIdle /\ BatchIdle
    /\ AccessIdle /\ ExportIdle /\ JobIdle
SpecMain == InitMain /\ [][MainNext]_vars
SpecPartition == InitPartition /\ [][LayoutLoop]_vars

InitBatch == BatchInit /\ LayoutIdle /\ HostIdle /\ DistIdle /\ MainIdle
    /\ AccessIdle /\ ExportIdle /\ JobIdle
SpecBatch == InitBatch /\ [][BatchNext]_vars

InitAccess == AccessInit /\ LayoutIdle /\ HostIdle /\ DistIdle /\ MainIdle
    /\ BatchIdle /\ ExportIdle /\ JobIdle
SpecAccess == InitAccess /\ [][AccessNext]_vars

InitExport == ExportInit /\ LayoutIdle /\ HostIdle /\ DistIdle /\ MainIdle
    /\ BatchIdle /\ AccessIdle /\ JobIdle

SpecExport == InitExport /\ [][ExportNext]_vars

InitJob == JobInit /\ LayoutIdle /\ HostIdle /\ DistIdle /\ MainIdle
    /\ BatchIdle /\ AccessIdle /\ ExportIdle

SpecJob == InitJob /\ [][JobNext]_vars

=============================================================================
